---- MODULE Spec2Model ----
(***************************************************************************)
(* Model of the spec-option extractor (extract_spec_options.py) of the     *)
(* specbuilder repository: one extraction run reads a corpus of C# source  *)
(* files (or JSON records), turns [SpecOption] / [SpecCapability] markers  *)
(* into Option and Capability records, aggregates them by category and     *)
(* writes the two catalogs code-options.js and code-capabilities.js.       *)
(*                                                                         *)
(* Strings that the extractor inspects character by character (paths,      *)
(* identifiers, categories, display names, ids) are sequences of           *)
(* one-character strings; strings it only copies are TLA+ strings.         *)
(***************************************************************************)
EXTENDS Integers, Sequences, FiniteSets, TLC

(***************************************************************************)
(* Bounds of the model.                                                    *)
(***************************************************************************)
\* largest number of source files in one corpus
MaxFiles == 2
\* number of extraction runs over the same output paths
MaxRuns == 2
\* longest input string handed to the slug function
MaxSlugLen == 5
\* number of changes made to the source files between two runs
MaxEdits == 1
\* largest number of service tranches entered in the form
MaxTranches == 2
\* longest string literal in a marker handed to the scanner
MaxArgLen == 3
\* longest source text, in lines, handed to the declaration binder
MaxLines == 5
\* number of lines after a marker in which its declaration is looked for
LookaheadWindow == 2

(***************************************************************************)
(* Characters.                                                             *)
(***************************************************************************)
UpperChars == <<"A", "B", "C", "D", "E", "F", "G", "H", "I", "J", "K", "L", "M",
                "N", "O", "P", "Q", "R", "S", "T", "U", "V", "W", "X", "Y", "Z">>
LowerChars == <<"a", "b", "c", "d", "e", "f", "g", "h", "i", "j", "k", "l", "m",
                "n", "o", "p", "q", "r", "s", "t", "u", "v", "w", "x", "y", "z">>
DigitChars == <<"0", "1", "2", "3", "4", "5", "6", "7", "8", "9">>
\* the characters of the model in code-point order (what string comparison uses)
AsciiOrder == <<" ", "!", "(", ")", "-", ".", "/">> \o DigitChars \o UpperChars
              \o <<"_">> \o LowerChars

Range(s) == {s[i] : i \in DOMAIN s}
IsUpper(c) == c \in Range(UpperChars)
IsLower(c) == c \in Range(LowerChars)
IsDigit(c) == c \in Range(DigitChars)
IsAlnum(c) == IsUpper(c) \/ IsLower(c) \/ IsDigit(c)
Ord(c) == CHOOSE i \in DOMAIN AsciiOrder : AsciiOrder[i] = c
ToLowerChar(c) ==
  IF IsUpper(c) THEN LowerChars[CHOOSE i \in DOMAIN UpperChars : UpperChars[i] = c]
  ELSE c
\* str.lower()
ToLower(s) == [i \in DOMAIN s |-> ToLowerChar(s[i])]

\* a < b in lexical (code-point) order
LexLess(a, b) ==
  \E i \in 1..(Len(a) + 1) :
    /\ \A j \in 1..(i - 1) : j <= Len(b) /\ a[j] = b[j]
    /\ \/ i = Len(a) + 1 /\ Len(b) >= i
       \/ i <= Len(a) /\ i <= Len(b) /\ Ord(a[i]) < Ord(b[i])

(***************************************************************************)
(* Slug generation (Entity Builder): lowercase, every run of               *)
(* non-alphanumeric characters becomes one underscore, leading and         *)
(* trailing underscores are trimmed.                                       *)
(***************************************************************************)
RECURSIVE ReplaceRuns(_, _)
\* re.sub('[^a-z0-9]+', '_', s): `inRun` says the previous character was
\* already replaced
ReplaceRuns(s, inRun) ==
  IF s = <<>> THEN <<>>
  ELSE IF IsAlnum(Head(s)) THEN <<Head(s)>> \o ReplaceRuns(Tail(s), FALSE)
  ELSE IF inRun THEN ReplaceRuns(Tail(s), TRUE)
  ELSE <<"_">> \o ReplaceRuns(Tail(s), TRUE)

RECURSIVE StripLeft(_)
StripLeft(s) == IF s # <<>> /\ Head(s) = "_" THEN StripLeft(Tail(s)) ELSE s
RECURSIVE StripRight(_)
StripRight(s) ==
  IF s # <<>> /\ s[Len(s)] = "_" THEN StripRight(SubSeq(s, 1, Len(s) - 1)) ELSE s
\* variant that trims the front of the string only
StripUnderscoresLeftOnly(s) == StripLeft(s)
\* str.strip('_')
StripUnderscores(s) == StripRight(StripLeft(s))

Slug(s) == StripUnderscores(ReplaceRuns(ToLower(s), FALSE))

(***************************************************************************)
(* Identifier to snake_case: the ids of the generated records.             *)
(***************************************************************************)
RECURSIVE SnakeFrom(_, _)
\* an underscore goes before every capital that follows a lowercase letter
\* or a digit; everything is lowercased
SnakeFrom(s, i) ==
  IF i > Len(s) THEN <<>>
  ELSE (IF i > 1 /\ IsUpper(s[i]) /\ (IsLower(s[i - 1]) \/ IsDigit(s[i - 1]))
        THEN <<"_", ToLowerChar(s[i])>>
        ELSE <<ToLowerChar(s[i])>>) \o SnakeFrom(s, i + 1)
ToSnakeCase(s) == SnakeFrom(s, 1)

(***************************************************************************)
(* String literals of the sample corpus and of the generated catalogs.     *)
(***************************************************************************)
\* relative paths of source files below the scan root
P_CoreA == <<"C", "o", "r", "e", "/", "A", ".", "c", "s">>
P_AbcA == <<"A", "b", "c", "/", "A", ".", "c", "s">>
P_CoreGmp == <<"C", "o", "r", "e", "/", "G", "m", "p", "E", "q", "u", "a", "l", "i", "s", "e", "r", ".", "c", "s">>
P_CoreTr == <<"C", "o", "r", "e", "/", "T", "r", "a", "n", "s", "f", "e", "r", "C", "a", "l", "c", "u", "l", "a", "t", "o", "r", ".", "c", "s">>
P_Helper == <<"H", "e", "l", "p", "e", "r", ".", "c", "s">>
P_AbcRule == <<"A", "b", "c", "/", "R", "u", "l", "e", ".", "c", "s">>
P_CoreRule == <<"C", "o", "r", "e", "/", "R", "u", "l", "e", ".", "c", "s">>
P_AbcBad == <<"A", "b", "c", "/", "B", "a", "d", ".", "c", "s">>
P_AbcTr == <<"A", "b", "c", "/", "T", "r", "a", "n", "s", "f", "e", "r", "C", "a", "l", "c", "u", "l", "a", "t", "o", "r", ".", "c", "s">>
P_CoreSubX == <<"C", "o", "r", "e", "/", "S", "u", "b", "/", "X", ".", "c", "s">>
P_CoreLock == <<"C", "o", "r", "e", "/", "L", "o", "c", "k", ".", "c", "s">>
P_Local == <<"L", "o", "c", "a", "l", ".", "c", "s">>
P_AbcOdd == <<"A", "b", "c", "/", "O", "d", "d", ".", "c", "s">>
\* class and method identifiers
N_FixedRateRevaluation == <<"F", "i", "x", "e", "d", "R", "a", "t", "e", "R", "e", "v", "a", "l", "u", "a", "t", "i", "o", "n">>
N_GmpEqualiser == <<"G", "m", "p", "E", "q", "u", "a", "l", "i", "s", "e", "r">>
N_TransferCalculator == <<"T", "r", "a", "n", "s", "f", "e", "r", "C", "a", "l", "c", "u", "l", "a", "t", "o", "r">>
N_InternalHelper == <<"I", "n", "t", "e", "r", "n", "a", "l", "H", "e", "l", "p", "e", "r">>
N_CpiCappedRevaluation == <<"C", "p", "i", "C", "a", "p", "p", "e", "d", "R", "e", "v", "a", "l", "u", "a", "t", "i", "o", "n">>
N_BadRule == <<"B", "a", "d", "R", "u", "l", "e">>
N_GmpRule == <<"G", "m", "p", "R", "u", "l", "e">>
N_Locked == <<"L", "o", "c", "k", "e", "d">>
N_LocalGmp == <<"L", "o", "c", "a", "l", "G", "m", "p">>
N_EmptyRule == <<"E", "m", "p", "t", "y", "R", "u", "l", "e">>
N_OddRule == <<"O", "d", "d", "R", "u", "l", "e">>
N_Calculate == <<"C", "a", "l", "c", "u", "l", "a", "t", "e">>
N_CheckAntiFranking == <<"C", "h", "e", "c", "k", "A", "n", "t", "i", "F", "r", "a", "n", "k", "i", "n", "g">>
N_ApplySection148 == <<"A", "p", "p", "l", "y", "S", "e", "c", "t", "i", "o", "n", "1", "4", "8">>
N_Equalise == <<"E", "q", "u", "a", "l", "i", "s", "e">>
N_CalculatePartialCetv == <<"C", "a", "l", "c", "u", "l", "a", "t", "e", "P", "a", "r", "t", "i", "a", "l", "C", "e", "t", "v">>
N_CalculateClubTransfer == <<"C", "a", "l", "c", "u", "l", "a", "t", "e", "C", "l", "u", "b", "T", "r", "a", "n", "s", "f", "e", "r">>
N_FormatDate == <<"F", "o", "r", "m", "a", "t", "D", "a", "t", "e">>
N_CalculateProRata == <<"C", "a", "l", "c", "u", "l", "a", "t", "e", "P", "r", "o", "R", "a", "t", "a">>
N_Round == <<"R", "o", "u", "n", "d">>
\* category values of markers (SpecCategories)
C_Revaluation == <<"R", "e", "v", "a", "l", "u", "a", "t", "i", "o", "n">>
C_GMP == <<"G", "M", "P">>
C_Transfers == <<"T", "r", "a", "n", "s", "f", "e", "r", "s">>
C_Commutation == <<"C", "o", "m", "m", "u", "t", "a", "t", "i", "o", "n">>
C_Builder == <<"B", "u", "i", "l", "d", "e", "r">>
C_Pensions == <<"P", "e", "n", "s", "i", "o", "n", "s">>
\* category values that differ from SpecCategories.GMP in letter case only
C_Gmp == <<"G", "m", "p">>
C_gmp == <<"g", "m", "p">>
\* display names of markers
D_FixedRate == <<"F", "i", "x", "e", "d", " ", "R", "a", "t", "e">>
D_GmpEqualisation == <<"G", "M", "P", " ", "E", "q", "u", "a", "l", "i", "s", "a", "t", "i", "o", "n", " ", "(", "D", "u", "a", "l", " ", "R", "e", "c", "o", "r", "d", ")">>
D_GmpRule == <<"G", "M", "P", " ", "R", "u", "l", "e">>
D_GmpRuleB == <<"G", "M", "P", "-", "R", "u", "l", "e", "!">>
D_AntiFranking == <<"A", "n", "t", "i", "-", "F", "r", "a", "n", "k", "i", "n", "g", " ", "C", "h", "e", "c", "k">>
D_Section148 == <<"S", "e", "c", "t", "i", "o", "n", " ", "1", "4", "8", " ", "R", "e", "v", "a", "l", "u", "a", "t", "i", "o", "n">>
D_PartialCetv == <<"P", "a", "r", "t", "i", "a", "l", " ", "C", "E", "T", "V">>
D_ClubTransfer == <<"C", "l", "u", "b", " ", "T", "r", "a", "n", "s", "f", "e", "r", " ", "V", "a", "l", "u", "e">>
D_CpiCapped == <<"C", "P", "I", "-", "C", "a", "p", "p", "e", "d", " ", "(", "s", "1", "0", "1", ")">>
D_ProRata == <<"P", "r", "o", "-", "r", "a", "t", "a", " ", "C", "P", "I", " ", "R", "e", "v", "a", "l", "u", "a", "t", "i", "o", "n">>
D_LocalGmp == <<"L", "o", "c", "a", "l", " ", "G", "M", "P">>
D_Empty == <<"E", "m", "p", "t", "y", " ", "R", "u", "l", "e">>
D_Rounding == <<"R", "o", "u", "n", "d", "i", "n", "g">>
D_RoundHelper == <<"R", "o", "u", "n", "d", " ", "H", "e", "l", "p", "e", "r">>
\* ids, category keys and schemes as they are written in the catalogs
I_fixed_rate == <<"f", "i", "x", "e", "d", "_", "r", "a", "t", "e">>
I_fixed_rate_revaluation == <<"f", "i", "x", "e", "d", "_", "r", "a", "t", "e", "_", "r", "e", "v", "a", "l", "u", "a", "t", "i", "o", "n">>
I_gmp_equaliser == <<"g", "m", "p", "_", "e", "q", "u", "a", "l", "i", "s", "e", "r">>
I_check_anti_franking == <<"c", "h", "e", "c", "k", "_", "a", "n", "t", "i", "_", "f", "r", "a", "n", "k", "i", "n", "g">>
I_apply_section148 == <<"a", "p", "p", "l", "y", "_", "s", "e", "c", "t", "i", "o", "n", "1", "4", "8">>
I_calculate_partial_cetv == <<"c", "a", "l", "c", "u", "l", "a", "t", "e", "_", "p", "a", "r", "t", "i", "a", "l", "_", "c", "e", "t", "v">>
I_gmp_rule == <<"g", "m", "p", "_", "r", "u", "l", "e">>
K_revaluation == <<"r", "e", "v", "a", "l", "u", "a", "t", "i", "o", "n">>
K_gmp == <<"g", "m", "p">>
K_transfers == <<"t", "r", "a", "n", "s", "f", "e", "r", "s">>
S_Core == <<"C", "o", "r", "e">>
S_Abc == <<"A", "b", "c">>
S_SchemeABC == <<"S", "c", "h", "e", "m", "e", "A", "B", "C">>
\* modification times
T_Oct == <<"2", "0", "2", "5", "-", "1", "0", "-", "0", "1", "T", "0", "9", ":", "0", "0", ":", "0", "0">>
T_Nov == <<"2", "0", "2", "5", "-", "1", "1", "-", "2", "0", "T", "0", "8", ":", "3", "0", ":", "0", "0">>
T_Dec == <<"2", "0", "2", "5", "-", "1", "2", "-", "0", "1", "T", "1", "6", ":", "4", "5", ":", "0", "0">>
\* calendar dates as they are written in the catalogs
L_Dec == <<"2", "0", "2", "5", "-", "1", "2", "-", "0", "1">>

(***************************************************************************)
(* Scheme / Timestamp Resolver.                                            *)
(***************************************************************************)
RECURSIVE FirstSegment(_)
\* the text before the first "/" of a relative path
FirstSegment(p) ==
  IF p = <<>> \/ Head(p) = "/" THEN <<>> ELSE <<Head(p)>> \o FirstSegment(Tail(p))
\* variant that takes the whole directory part of the path
SchemeOfDirName(p) ==
  IF "/" \in Range(p)
  THEN SubSeq(p, 1, (CHOOSE i \in DOMAIN p : p[i] = "/" /\ \A j \in DOMAIN p : p[j] = "/" => j <= i) - 1)
  ELSE <<>>
\* directory mode: first path segment under the scan root, empty for a file
\* directly in the root
SchemeOfPath(p) == IF "/" \in Range(p) THEN FirstSegment(p) ELSE <<>>
\* the timestamp truncated to the calendar date (YYYY-MM-DD)
DateOnly(ts) == SubSeq(ts, 1, 10)

(***************************************************************************)
(* The sample corpus: what the Attribute Locator, Argument Parser and      *)
(* Declaration Binder deliver for each source file.  A declaration carries *)
(* `marked` (a marker precedes it) and `args`, the marker's key -> string  *)
(* mapping.                                                                *)
(***************************************************************************)
NoArgs == <<>>
Args(category, name) == [Category |-> category, Name |-> name]
Method(name, returnType, parameters, visible, marked, args) ==
  [name |-> name, returnType |-> returnType, parameters |-> parameters,
   visible |-> visible, marked |-> marked, args |-> args]
Class(name, marked, args, methods) ==
  [name |-> name, marked |-> marked, args |-> args, methods |-> methods]
SourceFile(path, mtime, jsonScheme, readable, classes) ==
  [path |-> path, mtime |-> mtime, jsonScheme |-> jsonScheme,
   readable |-> readable, classes |-> classes]

\* a declaration whose marker the Attribute Locator or the Argument Parser
\* gave up on: "unbalanced" delimiters or an "unresolved" constant reference
Faulty(decl, kind) == decl @@ [fault |-> kind]
Fault(decl) == IF "fault" \in DOMAIN decl THEN decl.fault ELSE "none"
\* a declaration whose marker gives some arguments as qualified identifiers,
\* Category = SpecCategories.GMP, instead of string literals
ConstRef(table, name) == [table |-> table, name |-> name]
WithRefs(decl, refs) == decl @@ [refs |-> refs]
\* the known constants table: public const string GMP = "GMP"; ...
KnownConstants ==
  {[table |-> "SpecCategories", name |-> C_Revaluation, value |-> C_Revaluation],
   [table |-> "SpecCategories", name |-> C_Commutation, value |-> C_Commutation],
   [table |-> "SpecCategories", name |-> C_GMP, value |-> C_GMP],
   [table |-> "SpecCategories", name |-> C_Transfers, value |-> C_Transfers],
   [table |-> "SpecCategories", name |-> C_Builder, value |-> C_Builder]}
Declared(ref) == \E c \in KnownConstants : c.table = ref.table /\ c.name = ref.name
LiteralOf(ref) ==
  (CHOOSE c \in KnownConstants : c.table = ref.table /\ c.name = ref.name).value
\* variant that takes string literals only and gives up on every identifier
ResolveLiteralsOnly(decl) ==
  IF "refs" \in DOMAIN decl THEN Faulty(decl, "unresolved") ELSE decl
\* Argument Parser: the identifiers are replaced by the literals assigned to
\* them; an identifier that is not in the table makes the marker malformed
ResolveDecl(decl) ==
  IF "refs" \notin DOMAIN decl THEN decl
  ELSE IF \A k \in DOMAIN decl.refs : Declared(decl.refs[k])
  THEN [decl EXCEPT !.args = [k \in DOMAIN decl.refs |-> LiteralOf(decl.refs[k])] @@ decl.args]
  ELSE Faulty(decl, "unresolved")
\* a class and the methods in it
ResolveClass(cls) ==
  LET c == ResolveDecl(cls)
  IN [c EXCEPT !.methods = [k \in DOMAIN cls.methods |-> ResolveDecl(cls.methods[k])]]
\* a file with markers that no declaration follows
WithOrphans(file, attrs) == file @@ [orphans |-> attrs]
Orphans(file) == IF "orphans" \in DOMAIN file THEN file.orphans ELSE <<>>

\* Core/A.cs: a class marker and no method markers
FileCoreA ==
  SourceFile(P_CoreA, T_Oct, S_Core, TRUE,
    <<Class(N_FixedRateRevaluation, TRUE,
            Args(C_Revaluation, D_FixedRate) @@ [Description |-> "fixed annual rate"],
            <<Method(N_Calculate, "decimal",
                     "decimal pension, DateTime startDate, DateTime endDate",
                     TRUE, FALSE, NoArgs)>>)>>)
\* the scheme's own copy of that class, with a capability
FileAbcA ==
  SourceFile(P_AbcA, T_Nov, S_Abc, TRUE,
    <<Class(N_FixedRateRevaluation, TRUE, Args(C_Revaluation, D_FixedRate),
            <<Method(N_Calculate, "decimal", "decimal pension", TRUE, TRUE,
                     Args(C_Revaluation, D_ProRata))>>)>>)
\* Core/GmpEqualiser.cs: a class with both kinds of marker
FileCoreGmp ==
  SourceFile(P_CoreGmp, T_Dec, S_Core, TRUE,
    <<Class(N_GmpEqualiser, TRUE,
            Args(C_GMP, D_GmpEqualisation)
              @@ [Description |-> "dual-record method", WhyItMatters |-> "GMP service 1990-1997"],
            <<Method(N_CheckAntiFranking, "bool",
                     "decimal totalPension, decimal gmpAmount, decimal gmpIncrease", TRUE, TRUE,
                     Args(C_GMP, D_AntiFranking)
                       @@ [Description |-> "excess covers increases",
                           WhyItMatters |-> "no franking"]),
              Method(N_ApplySection148, "decimal", "decimal gmp, decimal revaluationFactor",
                     TRUE, TRUE,
                     Args(C_GMP, D_Section148) @@ [Description |-> "s148 orders"]),
              Method(N_Equalise, "decimal", "decimal malePension, decimal femalePension",
                     TRUE, FALSE, NoArgs)>>)>>)
\* two classes GmpRule in two scheme directories, named "GMP Rule" and
\* "GMP-Rule!", each with a capability
FileAbcRule ==
  SourceFile(P_AbcRule, T_Nov, S_Abc, TRUE,
    <<Class(N_GmpRule, TRUE, Args(C_GMP, D_GmpRule),
            <<Method(N_CheckAntiFranking, "bool", "decimal total", TRUE, TRUE,
                     Args(C_GMP, D_AntiFranking))>>)>>)
FileCoreRule ==
  SourceFile(P_CoreRule, T_Dec, S_Core, TRUE,
    <<Class(N_GmpRule, TRUE, Args(C_GMP, D_GmpRuleB),
            <<Method(N_CheckAntiFranking, "bool", "decimal pension", TRUE, TRUE,
                     Args(C_GMP, D_AntiFranking))>>)>>)
\* Core/TransferCalculator.cs: capability markers in a class without a class
\* marker
FileCoreTr ==
  SourceFile(P_CoreTr, T_Nov, S_Core, TRUE,
    <<Class(N_TransferCalculator, FALSE, NoArgs,
            <<Method(N_CalculatePartialCetv, "decimal", "decimal totalCetv, decimal proportion",
                     TRUE, TRUE,
                     Args(C_Transfers, D_PartialCetv)
                       @@ [Description |-> "partial transfer value",
                           WhyItMatters |-> "part of the benefits"]),
              Method(N_CalculateClubTransfer, "decimal", "decimal pension, decimal clubFactor",
                     TRUE, TRUE,
                     Args(C_Transfers, D_ClubTransfer) @@ [Description |-> "transfer club"])>>)>>)
\* the scheme's own copy of the transfer calculator
FileAbcTr ==
  SourceFile(P_AbcTr, T_Dec, S_Abc, TRUE,
    <<Class(N_TransferCalculator, FALSE, NoArgs,
            <<Method(N_CalculatePartialCetv, "decimal", "decimal cetv", TRUE, TRUE,
                     Args(C_Transfers, D_PartialCetv)),
              Method(N_FormatDate, "string", "DateTime d", TRUE, FALSE, NoArgs)>>)>>)
\* Helper.cs: a file in the scan root without any marker
FileHelper ==
  SourceFile(P_Helper, T_Oct, S_Core, TRUE,
    <<Class(N_InternalHelper, FALSE, NoArgs,
            <<Method(N_FormatDate, "string", "DateTime d", TRUE, FALSE, NoArgs)>>)>>)
\* markers that lack a required field: the class marker has no Name, one
\* method marker has no Category, one has an empty Name
FileAbcBad ==
  SourceFile(P_AbcBad, T_Nov, S_Abc, TRUE,
    <<Class(N_BadRule, TRUE, [Category |-> C_Revaluation],
            <<Method(N_Calculate, "decimal", "decimal pension", TRUE, TRUE,
                     Args(C_Revaluation, D_ProRata)),
              Method(N_CalculateProRata, "decimal", "decimal p", TRUE, TRUE,
                     [Name |-> D_ProRata]),
              Method(N_Equalise, "decimal", "decimal m", TRUE, TRUE,
                     Args(C_Revaluation, <<>>))>>)>>)
\* a nested file; its capability is filed under another category than the
\* Option of its class
FileCoreSubX ==
  SourceFile(P_CoreSubX, T_Dec, S_Core, TRUE,
    <<Class(N_CpiCappedRevaluation, TRUE, Args(C_Revaluation, D_CpiCapped),
            <<Method(N_CalculateProRata, "decimal", "decimal pension", TRUE, TRUE,
                     Args(C_GMP, D_ProRata)),
              Method(N_Calculate, "decimal", "decimal pension", TRUE, FALSE, NoArgs)>>)>>)
\* a file that cannot be opened
FileCoreLock ==
  SourceFile(P_CoreLock, T_Oct, S_Core, FALSE,
    <<Class(N_Locked, TRUE, Args(C_GMP, D_GmpRule), <<>>)>>)

\* Local.cs: a file in the scan root whose markers spell the GMP category in
\* three ways; one class has a private helper that carries a marker, the
\* other no method at all
FileLocal ==
  SourceFile(P_Local, T_Nov, S_SchemeABC, TRUE,
    <<Class(N_LocalGmp, TRUE, Args(C_Gmp, D_LocalGmp),
            <<Method(N_Calculate, "decimal", "decimal gmp", TRUE, TRUE,
                     Args(C_gmp, D_Rounding)),
              Method(N_Round, "decimal", "decimal x", FALSE, TRUE,
                     Args(C_GMP, D_RoundHelper))>>),
      WithRefs(Class(N_EmptyRule, TRUE, [Name |-> D_Empty], <<>>),
               [Category |-> ConstRef("SpecCategories", C_GMP)])>>)

\* Abc/Odd.cs: two overloads of Calculate with the same marker category, one
\* of them naming it by the constant SpecCategories.Revaluation, a
\* marker with unbalanced delimiters, a marker whose category names an
\* unknown constant, and a marker at the end of the file that no
\* declaration follows
FileAbcOdd ==
  WithOrphans(
    SourceFile(P_AbcOdd, T_Oct, S_Abc, TRUE,
      <<Class(N_OddRule, TRUE, Args(C_Revaluation, D_Rounding),
              <<Method(N_Calculate, "decimal", "decimal pension", TRUE, TRUE,
                       Args(C_Revaluation, D_ProRata)),
                WithRefs(Method(N_Calculate, "decimal", "decimal pension, int years",
                                TRUE, TRUE, [Name |-> D_FixedRate]),
                         [Category |-> ConstRef("SpecCategories", C_Revaluation)]),
                Faulty(Method(N_Equalise, "decimal", "decimal m", TRUE, TRUE, NoArgs),
                       "unbalanced"),
                WithRefs(Method(N_CalculateProRata, "decimal", "decimal p", TRUE, TRUE,
                                [Name |-> D_ProRata]),
                         [Category |-> ConstRef("SpecCategories", C_Pensions)])>>)>>),
    <<"SpecCapability">>)

FilePool == {FileCoreA, FileAbcA, FileCoreGmp, FileAbcRule, FileCoreRule, FileCoreTr, FileAbcTr, FileHelper,
             FileAbcBad, FileCoreSubX, FileCoreLock, FileLocal, FileAbcOdd}

(***************************************************************************)
(* Entity Builder.                                                         *)
(***************************************************************************)
\* variant that accepts a field with an empty value
HasFieldPresentOnly(args, key) == key \in DOMAIN args
\* the marker carries the field, with a value
HasField(args, key) == key \in DOMAIN args /\ args[key] # <<>>
\* a declaration becomes an entity iff its marker has both category and name
Eligible(decl) ==
  /\ decl.marked /\ Fault(decl) = "none"
  /\ HasField(decl.args, "Category") /\ HasField(decl.args, "Name")
\* variant that files an entity under the category as the marker spells it
CategoryVerbatim(args) == args.Category
\* the catalog key of a marker: its category, lowercased
CategoryKey(args) == ToLower(args.Category)
\* the optional descriptive fields, copied when the marker has them
Descriptive(args) ==
  (IF "Description" \in DOMAIN args THEN [description |-> args.Description] ELSE <<>>)
  @@ (IF "WhyItMatters" \in DOMAIN args THEN [whyItMatters |-> args.WhyItMatters] ELSE <<>>)

\* variant that derives the id from the display name
IdOfDisplayName(ident, displayName) == Slug(displayName)
\* ids are auto-generated as snake_case from the class/method name
EntityId(ident, displayName) == ToSnakeCase(ident)

OptionRecord(mod, cls) ==
  [id |-> EntityId(cls.name, cls.args.Name), name |-> cls.args.Name,
   codeClass |-> cls.name, scheme |-> mod.scheme, lastModified |-> mod.lastModified]
  @@ Descriptive(cls.args)

\* variant that links a capability only to an Option of its own category
ParentLinkSameCategory(cls, m) ==
  IF Eligible(cls) /\ CategoryKey(cls.args) = CategoryKey(m.args)
  THEN [parentOption |-> [id |-> EntityId(cls.name, cls.args.Name), name |-> cls.args.Name]]
  ELSE <<>>
\* variant that links to any class that carries a class marker
ParentLinkAnyMarker(cls, m) ==
  IF cls.marked
  THEN [parentOption |-> [id |-> ToSnakeCase(cls.name),
                          name |-> IF "Name" \in DOMAIN cls.args THEN cls.args.Name ELSE <<>>]]
  ELSE <<>>
\* variant that writes an empty parentOption for a capability without parent
ParentLinkOrEmpty(cls, m) ==
  IF Eligible(cls)
  THEN [parentOption |-> [id |-> EntityId(cls.name, cls.args.Name), name |-> cls.args.Name]]
  ELSE [parentOption |-> <<>>]
\* parentOption is set when the capability's class also has an Option
ParentLink(cls, m) ==
  IF Eligible(cls)
  THEN [parentOption |-> [id |-> EntityId(cls.name, cls.args.Name), name |-> cls.args.Name]]
  ELSE <<>>

CapabilityRecord(mod, cls, m) ==
  [id |-> EntityId(m.name, m.args.Name), name |-> m.args.Name,
   methodName |-> m.name, returnType |-> m.returnType, parameters |-> m.parameters,
   codeClass |-> cls.name, scheme |-> mod.scheme, lastModified |-> mod.lastModified]
  @@ Descriptive(m.args) @@ ParentLink(cls, m)

\* an entity is a record together with the catalog key it is filed under
Entity(key, rec) == [key |-> key, rec |-> rec]
Collides(e, f) == e.key = f.key /\ e.rec.id = f.rec.id

\* variant that keeps the earlier entity on a collision
AddEntityFirstWins(list, e) ==
  IF \E i \in DOMAIN list : Collides(list[i], e) THEN list ELSE Append(list, e)
\* a later entity with the same id in the same category replaces the earlier
AddEntity(list, e) ==
  Append(SelectSeq(list, LAMBDA f : ~Collides(f, e)), e)

RECURSIVE AddAll(_, _)
AddAll(list, es) ==
  IF es = <<>> THEN list ELSE AddAll(AddEntity(list, Head(es)), Tail(es))

SeqMap(s, F(_)) == [i \in DOMAIN s |-> F(s[i])]
RECURSIVE Flatten(_)
Flatten(ss) == IF ss = <<>> THEN <<>> ELSE Head(ss) \o Flatten(Tail(ss))

\* the Option entities of one module, in file position order
OptionsOfModule(mod) ==
  SeqMap(SelectSeq(mod.classes, Eligible),
         LAMBDA cls : Entity(CategoryKey(cls.args), OptionRecord(mod, cls)))
\* variant that looks for capabilities in classes with an Option only
CapabilitiesOfOptionClass(mod, cls) ==
  IF Eligible(cls)
  THEN SeqMap(SelectSeq(cls.methods, Eligible),
              LAMBDA m : Entity(CategoryKey(m.args), CapabilityRecord(mod, cls, m)))
  ELSE <<>>
\* variant that gives up on a class on meeting a marker it has to skip
CapabilitiesUntilSkip(mod, cls) ==
  IF \E k \in DOMAIN cls.methods : cls.methods[k].marked /\ ~Eligible(cls.methods[k])
  THEN <<>>
  ELSE SeqMap(SelectSeq(cls.methods, Eligible),
              LAMBDA m : Entity(CategoryKey(m.args), CapabilityRecord(mod, cls, m)))
\* the Capability entities of one class, in file position order
CapabilitiesOfClass(mod, cls) ==
  SeqMap(SelectSeq(cls.methods, Eligible),
         LAMBDA m : Entity(CategoryKey(m.args), CapabilityRecord(mod, cls, m)))
CapabilitiesOfModule(mod) ==
  Flatten(SeqMap(mod.classes, LAMBDA cls : CapabilitiesOfClass(mod, cls)))

\* diagnostics: markers skipped as malformed, orphaned or for a missing
\* field, and collisions
MissingFieldDiag(mod, declName) ==
  [kind |-> "missing_field", path |-> mod.path, decl |-> declName]
MalformedDiag(mod, decl) ==
  [kind |-> "malformed", path |-> mod.path, decl |-> decl.name, why |-> Fault(decl)]
OrphanDiag(mod, attr) == [kind |-> "orphaned", path |-> mod.path, marker |-> attr]
CollisionDiag(e) == [kind |-> "collision", key |-> e.key, id |-> e.rec.id]
\* the diagnostic for a marked declaration that yields no entity
SkipDiag(mod, decl) ==
  IF Fault(decl) = "none" THEN MissingFieldDiag(mod, decl.name) ELSE MalformedDiag(mod, decl)
OrphanDiags(mod, attr) ==
  {OrphanDiag(mod, mod.orphans[i]) : i \in {j \in DOMAIN mod.orphans : mod.orphans[j] = attr}}
ClassDiags(mod) ==
  {SkipDiag(mod, mod.classes[i]) :
     i \in {j \in DOMAIN mod.classes : mod.classes[j].marked /\ ~Eligible(mod.classes[j])}}
  \cup OrphanDiags(mod, "SpecOption")
MethodDiags(mod) ==
  UNION {{SkipDiag(mod, mod.classes[i].methods[k]) :
            k \in {j \in DOMAIN mod.classes[i].methods :
                     mod.classes[i].methods[j].marked /\ ~Eligible(mod.classes[i].methods[j])}} :
         i \in DOMAIN mod.classes}
  \cup OrphanDiags(mod, "SpecCapability")
RECURSIVE CollisionDiags(_, _)
\* the collisions met while adding the entities es, one after the other, to list
CollisionDiags(list, es) ==
  IF es = <<>> THEN {}
  ELSE (IF \E i \in DOMAIN list : Collides(list[i], Head(es))
        THEN {CollisionDiag(Head(es))} ELSE {})
       \cup CollisionDiags(AddEntity(list, Head(es)), Tail(es))

(***************************************************************************)
(* Category Aggregator and Catalog Serializer.                             *)
(***************************************************************************)
RECURSIVE SortStrings(_)
\* the strings of a finite set in ascending lexical order
SortStrings(S) ==
  IF S = {} THEN <<>>
  ELSE LET m == CHOOSE x \in S : \A y \in S \ {x} : LexLess(x, y)
       IN <<m>> \o SortStrings(S \ {m})
RECURSIVE DescendingKeys(_)
\* variant that emits the categories in descending order
DescendingKeys(S) ==
  IF S = {} THEN <<>>
  ELSE LET m == CHOOSE x \in S : \A y \in S \ {x} : LexLess(y, x)
       IN <<m>> \o DescendingKeys(S \ {m})
\* categories are sorted alphabetically
SortedKeys(S) == SortStrings(S)
\* a catalog: for every category key in order, the records filed under it
Aggregate(list) ==
  LET keys == SortedKeys({list[i].key : i \in DOMAIN list})
  IN [n \in DOMAIN keys |->
        [key |-> keys[n],
         records |-> SeqMap(SelectSeq(list, LAMBDA e : e.key = keys[n]),
                            LAMBDA e : e.rec)]]

(***************************************************************************)
(* File discovery.                                                         *)
(***************************************************************************)
RECURSIVE InsertByPath(_, _)
InsertByPath(sorted, f) ==
  IF sorted = <<>> THEN <<f>>
  ELSE IF LexLess(f.path, Head(sorted).path) THEN <<f>> \o sorted
  ELSE <<Head(sorted)>> \o InsertByPath(Tail(sorted), f)
RECURSIVE SortByPath(_)
\* the files in lexical order of their relative paths
SortByPath(files) ==
  IF files = <<>> THEN <<>>
  ELSE InsertByPath(SortByPath(SubSeq(files, 1, Len(files) - 1)), files[Len(files)])
\* variant that takes the files as the directory listing returns them
EnumeratedOrder(m, enum) == enum
\* the order in which the modules are processed: lexical path order for a
\* directory scan, record order for a JSON input
\* (variant that sorts with the comparison turned around)
ProcessingOrderDescending(m, enum) ==
  IF m = "dir"
  THEN [i \in DOMAIN enum |-> SortByPath(enum)[Len(enum) + 1 - i]]
  ELSE enum
ProcessingOrder(m, enum) == IF m = "dir" THEN SortByPath(enum) ELSE enum
\* variant that derives the scheme from the path in JSON mode as well
LoadModuleFromPath(m, f) ==
  [path |-> f.path, classes |-> [i \in DOMAIN f.classes |-> ResolveClass(f.classes[i])],
   scheme |-> SchemeOfPath(f.path),
   lastModified |-> DateOnly(f.mtime), orphans |-> Orphans(f)]
\* one loaded module: the declarations of the file with its scheme and date
LoadModule(m, f) ==
  [path |-> f.path, classes |-> [i \in DOMAIN f.classes |-> ResolveClass(f.classes[i])],
   scheme |-> IF m = "dir" THEN SchemeOfPath(f.path) ELSE f.jsonScheme,
   lastModified |-> DateOnly(f.mtime), orphans |-> Orphans(f)]

\* every order in which a directory listing can return the files of S
Listings(S) ==
  {p \in [1..Cardinality(S) -> S] : \A i, j \in DOMAIN p : p[i] = p[j] => i = j}
Corpora(m) ==
  {S \in SUBSET (IF m = "dir" THEN FilePool ELSE {f \in FilePool : f.readable}) :
     Cardinality(S) <= MaxFiles}

(***************************************************************************)
(* Coverage Analyzer.                                                      *)
(***************************************************************************)
\* variant that counts every method of the class
AllMethods(cls) == DOMAIN cls.methods
\* the public, non-constructor methods of a class
VisibleMethods(cls) == {k \in DOMAIN cls.methods : cls.methods[k].visible}
\* variant that counts every method with a marker, visible or not
MarkedMethods(cls) == {k \in DOMAIN cls.methods : cls.methods[k].marked}
\* those of them that carry a [SpecCapability] marker
DocumentedMethods(cls) == {k \in VisibleMethods(cls) : cls.methods[k].marked}
\* k of n as a percentage, rounded to the nearest integer
Percent(k, n) == (200 * k + n) \div (2 * n)
\* "k/n methods documented (p%)"; no percentage is given for 0/0
Fraction(k, n) ==
  [documented |-> k, total |-> n] @@ (IF n > 0 THEN [percent |-> Percent(k, n)] ELSE <<>>)
CoverageEntry(cls) ==
  [class |-> cls.name]
  @@ Fraction(Cardinality(DocumentedMethods(cls)), Cardinality(VisibleMethods(cls)))
\* the report lists the classes that carry a [SpecOption] attribute
Listed(cls) == cls.marked
CoverageOfModule(mod) == SeqMap(SelectSeq(mod.classes, Listed), CoverageEntry)
RECURSIVE SumOf(_, _)
\* the sum of field f over the entries
SumOf(entries, f) ==
  IF entries = <<>> THEN 0 ELSE Head(entries)[f] + SumOf(Tail(entries), f)
\* variant that gives the mean of the percentages of the classes as the
\* overall percentage
CoverageReportAveraged(mods) ==
  LET entries == Flatten(SeqMap(mods, CoverageOfModule))
      rated == SelectSeq(entries, LAMBDA e : e.total > 0)
  IN [printed |-> TRUE, classes |-> entries,
      overall |-> [documented |-> SumOf(entries, "documented"),
                   total |-> SumOf(entries, "total")]
                  @@ (IF rated # <<>>
                      THEN [percent |-> SumOf(rated, "percent") \div Len(rated)]
                      ELSE <<>>)]
CoverageReport(mods) ==
  LET entries == Flatten(SeqMap(mods, CoverageOfModule))
  IN [printed |-> TRUE, classes |-> entries,
      overall |-> Fraction(SumOf(entries, "documented"), SumOf(entries, "total"))]

(***************************************************************************)
(* The extraction run.                                                     *)
(***************************************************************************)
VARIABLES
  mode,         \* "dir": <input> is a directory; "json": a JSON file of records
  corpus,       \* the source files of the input
  enumOrder,    \* the order in which the input yields them in this run
  pc,           \* the phase of the run
  todo,         \* the files of this run in processing order
  idx,          \* position of the current phase in todo / modules
  modules,      \* the modules loaded so far
  options,      \* the Option entities built so far
  caps,         \* the Capability entities built so far
  diags,        \* the diagnostics recorded so far
  optionsFile,  \* the file at OPTIONS_OUT
  capsFile,     \* the file at CAPABILITIES_OUT
  exitCode,     \* exit status of the last finished run (-1: none yet)
  runs,         \* number of runs started
  prev,         \* input and result of the run before the current one
  inputReadable,\* the input path can be opened
  report,       \* the coverage report printed by the current run
  before,       \* the two output files as the current run found them
  crashAt,      \* the phase in which the current run was killed, if it was
  edits,        \* number of changes made to the input between runs
  seen,         \* what a reader of the two output files has loaded
  slugIn,       \* argument of the slug function
  slugOut,      \* its result
  slugDone,     \* the slug function has been applied
  loads,        \* the specbuilder page: state of its two script loads
  panel,        \* its Code Inventory panel: "unset", "hidden" or "shown"
  errors,       \* number of errors on its console
  exportSection,\* Code Inventory section of its last export, if any
  step,         \* the step of the form it shows
  calcType,     \* the calc type selected in step 1
  tranches,     \* per service tranche: "Includes GMP" is ticked
  lastAction,   \* the last thing the user did in the form
  fromStep,     \* the step the form showed before that
  scanIn,       \* source text handed to the scanner
  scanOut,      \* what the scanner made of it
  scanDone      \* the scanner has been applied

runVars == <<mode, corpus, enumOrder, pc, todo, idx, modules, options, caps, diags,
             optionsFile, capsFile, exitCode, runs, prev, inputReadable,
             report, before, crashAt, edits, seen>>
slugVars == <<slugIn, slugOut, slugDone>>
\* what no step of a run changes
wizVars == <<loads, panel, errors, exportSection, step, calcType, tranches,
             lastAction, fromStep>>
scanVars == <<scanIn, scanOut, scanDone>>
envVars == <<inputReadable, edits, seen, slugVars, wizVars, scanVars>>
vars == <<runVars, slugVars, wizVars, scanVars>>

NoFile == [exists |-> FALSE, catalog |-> <<>>]
WrittenFile(catalog) == [exists |-> TRUE, catalog |-> catalog]
NoPrev == [valid |-> FALSE]
NoReport == [printed |-> FALSE]
OutputFiles(o, c) == [optionsFile |-> o, capsFile |-> c]
\* the reader has not loaded the file
NotLoaded == [loaded |-> FALSE]

RunInit ==
  /\ mode \in {"dir", "json"}
  /\ inputReadable \in BOOLEAN
  /\ corpus \in (IF inputReadable THEN Corpora(mode) ELSE {{}})
  /\ enumOrder \in Listings(corpus)
  /\ pc = "idle"
  /\ todo = <<>>
  /\ idx = 1
  /\ modules = <<>>
  /\ options = <<>>
  /\ caps = <<>>
  /\ diags = {}
  /\ optionsFile = NoFile
  /\ capsFile = NoFile
  /\ exitCode = -1
  /\ runs = 0
  /\ prev = NoPrev
  /\ report = NoReport
  /\ before = OutputFiles(NoFile, NoFile)
  /\ crashAt = "none"
  /\ edits = 0
  /\ seen = [options |-> NotLoaded, caps |-> NotLoaded]

SlugIdle == slugIn = <<>> /\ slugOut = <<>> /\ slugDone = FALSE

\* the specbuilder page is not open
NotOpen == [options |-> "idle", caps |-> "idle"]
NoCalcType == "none"
NoExport == [done |-> FALSE]
WizIdle ==
  /\ loads = NotOpen /\ panel = "unset" /\ errors = 0 /\ exportSection = NoExport
  /\ step = 0 /\ calcType = NoCalcType /\ tranches = <<>>
  /\ lastAction = "none" /\ fromStep = 0

ScanIdle == scanIn = <<>> /\ scanOut = <<>> /\ scanDone = FALSE

Init == RunInit /\ SlugIdle /\ WizIdle /\ ScanIdle

\* variant that exits non-zero when a marker was skipped or overwritten
ExitStatusStrict(ds) == IF ds = {} THEN 0 ELSE 1
\* the exit status of a run that has read all of its input: warnings do not
\* change it
ExitStatus(ds) == 0

\* main(): the input path cannot be opened; abort with a non-zero exit
InputFail ==
  /\ pc = "idle"
  /\ runs < MaxRuns
  /\ ~inputReadable
  /\ pc' = "failed"
  /\ exitCode' = 1
  /\ runs' = runs + 1
  /\ todo' = <<>>
  /\ idx' = 1
  /\ modules' = <<>>
  /\ options' = <<>>
  /\ caps' = <<>>
  /\ diags' = {}
  /\ report' = NoReport
  /\ before' = OutputFiles(optionsFile, capsFile)
  /\ crashAt' = "none"
  /\ UNCHANGED <<mode, corpus, enumOrder, optionsFile, capsFile, prev, envVars>>

\* variant that keeps the entities of the run before
StartRunKeeping ==
  /\ pc = "idle"
  /\ runs < MaxRuns
  /\ inputReadable
  /\ pc' = "scan"
  /\ runs' = runs + 1
  /\ todo' = ProcessingOrder(mode, enumOrder)
  /\ idx' = 1
  /\ modules' = <<>>
  /\ diags' = {}
  /\ report' = NoReport
  /\ before' = OutputFiles(optionsFile, capsFile)
  /\ crashAt' = "none"
  /\ UNCHANGED <<mode, corpus, enumOrder, options, caps, optionsFile, capsFile, exitCode, prev,
                 envVars>>
\* main(): parse the arguments and start scanning
StartRun ==
  /\ pc = "idle"
  /\ runs < MaxRuns
  /\ inputReadable
  /\ pc' = "scan"
  /\ runs' = runs + 1
  /\ todo' = ProcessingOrder(mode, enumOrder)
  /\ idx' = 1
  /\ modules' = <<>>
  /\ options' = <<>>
  /\ caps' = <<>>
  /\ diags' = {}
  /\ report' = NoReport
  /\ before' = OutputFiles(optionsFile, capsFile)
  /\ crashAt' = "none"
  /\ UNCHANGED <<mode, corpus, enumOrder, optionsFile, capsFile, exitCode, prev, envVars>>

\* READ <path> (scheme=...)
ReadFile ==
  /\ pc = "scan"
  /\ idx <= Len(todo)
  /\ todo[idx].readable
  /\ modules' = Append(modules, LoadModule(mode, todo[idx]))
  /\ idx' = idx + 1
  /\ UNCHANGED <<mode, corpus, enumOrder, pc, todo, options, caps, diags,
                 optionsFile, capsFile, exitCode, runs, prev, report, before, crashAt, envVars>>

\* variant that has opened the two output files for writing before the scan
\* and leaves them empty when it aborts
ReadFailTruncating ==
  /\ pc = "scan"
  /\ idx <= Len(todo)
  /\ ~todo[idx].readable
  /\ pc' = "failed"
  /\ exitCode' = 1
  /\ optionsFile' = WrittenFile(<<>>)
  /\ capsFile' = WrittenFile(<<>>)
  /\ UNCHANGED <<mode, corpus, enumOrder, todo, idx, modules, options, caps, diags,
                 runs, prev, report, before, crashAt, envVars>>
\* UnreadableInput: abort the whole run with a non-zero exit
ReadFail ==
  /\ pc = "scan"
  /\ idx <= Len(todo)
  /\ ~todo[idx].readable
  /\ pc' = "failed"
  /\ exitCode' = 1
  /\ UNCHANGED <<mode, corpus, enumOrder, todo, idx, modules, options, caps, diags,
                 optionsFile, capsFile, runs, prev, report, before, crashAt, envVars>>

\* Loaded n .cs files
ScanDone ==
  /\ pc = "scan"
  /\ idx > Len(todo)
  /\ pc' = "options"
  /\ idx' = 1
  /\ UNCHANGED <<mode, corpus, enumOrder, todo, modules, options, caps, diags,
                 optionsFile, capsFile, exitCode, runs, prev, report, before, crashAt, envVars>>

\* --- Spec Options ---: the class markers of one module
ExtractOptions ==
  /\ pc = "options"
  /\ idx <= Len(modules)
  /\ LET es == OptionsOfModule(modules[idx])
     IN /\ options' = AddAll(options, es)
        /\ diags' = diags \cup ClassDiags(modules[idx]) \cup CollisionDiags(options, es)
  /\ idx' = idx + 1
  /\ UNCHANGED <<mode, corpus, enumOrder, pc, todo, modules, caps,
                 optionsFile, capsFile, exitCode, runs, prev, report, before, crashAt, envVars>>

OptionsDone ==
  /\ pc = "options"
  /\ idx > Len(modules)
  /\ pc' = "caps"
  /\ idx' = 1
  /\ UNCHANGED <<mode, corpus, enumOrder, todo, modules, options, caps, diags,
                 optionsFile, capsFile, exitCode, runs, prev, report, before, crashAt, envVars>>

\* --- Spec Capabilities ---: the method markers of one module
ExtractCapabilities ==
  /\ pc = "caps"
  /\ idx <= Len(modules)
  /\ LET es == CapabilitiesOfModule(modules[idx])
     IN /\ caps' = AddAll(caps, es)
        /\ diags' = diags \cup MethodDiags(modules[idx]) \cup CollisionDiags(caps, es)
  /\ idx' = idx + 1
  /\ UNCHANGED <<mode, corpus, enumOrder, pc, todo, modules, options,
                 optionsFile, capsFile, exitCode, runs, prev, report, before, crashAt, envVars>>

CapabilitiesDone ==
  /\ pc = "caps"
  /\ idx > Len(modules)
  /\ pc' = "coverage"
  /\ UNCHANGED <<mode, corpus, enumOrder, todo, idx, modules, options, caps, diags,
                 optionsFile, capsFile, exitCode, runs, prev, report, before, crashAt, envVars>>

\* Coverage Report: printed when the run was called with --coverage
ReportCoverage ==
  /\ pc = "coverage"
  /\ \E coverage \in BOOLEAN :
       report' = IF coverage THEN CoverageReport(modules) ELSE NoReport
  /\ pc' = "write_options"
  /\ UNCHANGED <<mode, corpus, enumOrder, todo, idx, modules, options, caps, diags,
                 optionsFile, capsFile, exitCode, runs, prev, before, crashAt, envVars>>

\* write code-options.js in one piece
WriteOptions ==
  /\ pc = "write_options"
  /\ optionsFile' = WrittenFile(Aggregate(options))
  /\ pc' = "write_capabilities"
  /\ UNCHANGED <<mode, corpus, enumOrder, todo, idx, modules, options, caps, diags,
                 capsFile, exitCode, runs, prev, report, before, crashAt, envVars>>

\* variant that does not replace a code-capabilities.js that is there
WriteCapabilitiesOnce ==
  /\ pc = "write_capabilities"
  /\ capsFile' = IF capsFile.exists THEN capsFile ELSE WrittenFile(Aggregate(caps))
  /\ pc' = "done"
  /\ exitCode' = ExitStatus(diags)
  /\ UNCHANGED <<mode, corpus, enumOrder, todo, idx, modules, options, caps, diags,
                 optionsFile, runs, prev, report, before, crashAt, envVars>>
\* write code-capabilities.js in one piece and exit 0
WriteCapabilities ==
  /\ pc = "write_capabilities"
  /\ capsFile' = WrittenFile(Aggregate(caps))
  /\ pc' = "done"
  /\ exitCode' = ExitStatus(diags)
  /\ UNCHANGED <<mode, corpus, enumOrder, todo, idx, modules, options, caps, diags,
                 optionsFile, runs, prev, report, before, crashAt, envVars>>

\* the operator runs the extractor again on the same input and output paths;
\* a directory may list its files in another order, a JSON file keeps its
\* record order
RunAgain ==
  /\ pc \in {"done", "failed", "crashed"}
  /\ runs < MaxRuns
  /\ prev' = [valid |-> TRUE, corpus |-> corpus, mode |-> mode, enumOrder |-> enumOrder,
              optionsFile |-> optionsFile, capsFile |-> capsFile, exitCode |-> exitCode]
  /\ enumOrder' \in (IF mode = "dir" THEN Listings(corpus) ELSE {enumOrder})
  /\ pc' = "idle"
  /\ UNCHANGED <<mode, corpus, todo, idx, modules, options, caps, diags,
                 optionsFile, capsFile, exitCode, runs, report, before, crashAt, envVars>>

Next ==
  \/ InputFail
  \/ StartRun
  \/ ReadFile
  \/ ReadFail
  \/ ScanDone
  \/ ExtractOptions
  \/ OptionsDone
  \/ ExtractCapabilities
  \/ CapabilitiesDone
  \/ ReportCoverage
  \/ WriteOptions
  \/ WriteCapabilities
  \/ RunAgain

Spec == Init /\ [][Next]_vars

(***************************************************************************)
(* The slug function applied to every short string over a small alphabet.  *)
(***************************************************************************)
SlugAlphabet == {"a", "B", "7", " ", "-", "_"}
SlugInputs == UNION {[1..n -> SlugAlphabet] : n \in 0..MaxSlugLen}

SlugInit ==
  /\ mode = "dir" /\ corpus = {} /\ enumOrder = <<>> /\ pc = "idle" /\ todo = <<>>
  /\ idx = 1 /\ modules = <<>> /\ options = <<>> /\ caps = <<>> /\ diags = {}
  /\ optionsFile = NoFile /\ capsFile = NoFile /\ exitCode = -1 /\ runs = 0
  /\ prev = NoPrev /\ inputReadable = TRUE /\ report = NoReport
  /\ before = OutputFiles(NoFile, NoFile) /\ crashAt = "none" /\ edits = 0
  /\ seen = [options |-> NotLoaded, caps |-> NotLoaded]
  /\ slugIn \in SlugInputs
  /\ slugOut = <<>>
  /\ slugDone = FALSE
  /\ WizIdle
  /\ ScanIdle

ApplySlug ==
  /\ ~slugDone
  /\ slugOut' = Slug(slugIn)
  /\ slugDone' = TRUE
  /\ UNCHANGED <<runVars, slugIn, wizVars, scanVars>>

SlugNext == ApplySlug

SlugSpec == SlugInit /\ [][SlugNext]_vars

(***************************************************************************)
(* The extractor in use: the sources change between runs, a run can be     *)
(* killed at any step, and the specbuilder page loads the two output files *)
(* while the extractor runs.                                               *)
(***************************************************************************)
\* the file after its first class lost its [SpecOption] attribute
WithoutClassMarker(f) ==
  [f EXCEPT !.classes = [i \in DOMAIN f.classes |->
                           IF i = 1
                           THEN [f.classes[i] EXCEPT !.marked = FALSE, !.args = NoArgs]
                           ELSE f.classes[i]]]
\* the file after its first class was renamed
WithClassRenamed(f) ==
  [f EXCEPT !.classes = [i \in DOMAIN f.classes |->
                           IF i = 1
                           THEN [f.classes[i] EXCEPT !.name = f.classes[i].name \o <<"V", "2">>]
                           ELSE f.classes[i]]]
\* the file after it was made unreadable
Locked(f) == [f EXCEPT !.readable = FALSE]
\* the source files the changes start from
OpsPool == {FileCoreGmp, FileCoreTr, FileAbcRule}
\* what a change can turn the file into
Variants(m, f) ==
  ({WithoutClassMarker(f), WithClassRenamed(f)} \cup (IF m = "dir" THEN {Locked(f)} ELSE {}))
    \ {f}
\* the listings one change away: a file deleted, a file changed, a file added
Edits(m, enum) ==
  {SelectSeq(enum, LAMBDA f : f # enum[i]) : i \in DOMAIN enum}
  \cup UNION {{[enum EXCEPT ![i] = g] : g \in Variants(m, enum[i])} : i \in DOMAIN enum}
  \cup {Append(enum, g) : g \in {h \in OpsPool : Len(enum) < MaxFiles
                                              /\ \A i \in DOMAIN enum : enum[i].path # h.path}}

\* a decorated class or method is renamed or deleted, an attribute is added
\* or removed, between two runs
EditInput ==
  /\ pc = "idle"
  /\ prev.valid
  /\ inputReadable
  /\ edits < MaxEdits
  /\ enumOrder' \in Edits(mode, enumOrder)
  /\ corpus' = Range(enumOrder')
  /\ edits' = edits + 1
  /\ UNCHANGED <<mode, pc, todo, idx, modules, options, caps, diags, optionsFile, capsFile,
                 exitCode, runs, prev, inputReadable, report, before, crashAt,
                 seen, slugVars, wizVars, scanVars>>

\* the extractor process is killed: what it held in memory is gone
Crash ==
  /\ pc \in {"scan", "options", "caps", "coverage", "write_options", "write_capabilities"}
  /\ crashAt' = pc
  /\ pc' = "crashed"
  /\ exitCode' = -1
  /\ todo' = <<>>
  /\ idx' = 1
  /\ modules' = <<>>
  /\ options' = <<>>
  /\ caps' = <<>>
  /\ diags' = {}
  /\ report' = NoReport
  /\ UNCHANGED <<mode, corpus, enumOrder, optionsFile, capsFile, runs, prev, before, envVars>>

\* what loadScript() gets of an output file
Loaded(file) == [loaded |-> TRUE, file |-> file]
\* loadScript('code-options.js')
LoadOptionsScript ==
  /\ ~seen.options.loaded
  /\ seen' = [seen EXCEPT !.options = Loaded(optionsFile)]
  /\ UNCHANGED <<mode, corpus, enumOrder, pc, todo, idx, modules, options, caps, diags,
                 optionsFile, capsFile, exitCode, runs, prev, inputReadable,
                 report, before, crashAt, edits, slugVars, wizVars, scanVars>>
\* loadScript('code-capabilities.js')
LoadCapabilitiesScript ==
  /\ ~seen.caps.loaded
  /\ seen' = [seen EXCEPT !.caps = Loaded(capsFile)]
  /\ UNCHANGED <<mode, corpus, enumOrder, pc, todo, idx, modules, options, caps, diags,
                 optionsFile, capsFile, exitCode, runs, prev, inputReadable,
                 report, before, crashAt, edits, slugVars, wizVars, scanVars>>

\* a directory scan over some of these files
OpsInit ==
  /\ Init
  /\ mode = "dir"
  /\ corpus \subseteq OpsPool

OpsNext ==
  \/ Next
  \/ EditInput
  \/ Crash
  \/ LoadOptionsScript
  \/ LoadCapabilitiesScript

OpsSpec == OpsInit /\ [][OpsNext]_vars

(***************************************************************************)
(* The specbuilder page, index.html: it loads the two catalogs when it     *)
(* opens and walks the analyst through the steps of the form.              *)
(***************************************************************************)
\* MODULE_LIBRARY.calcTypes, by id
CalcTypes ==
  {"dtor", "ator", "transfer_out", "death_before_ret", "death_after_ret",
   "trivial_commutation", "pension_sharing", "estimate"}
\* the calc types without a commutation step
noCommCalcs == {"transfer_out", "death_before_ret", "death_after_ret"}
\* step 6, Review & Export
ReviewStep == 6
Steps == 0..ReviewStep

\* some tranche has "Includes GMP" ticked
hasGMP == \E i \in DOMAIN tranches : tranches[i]
isStepSkippedGmpOnly(i) == i = 3 /\ ~hasGMP
isStepSkipped(i) ==
  \/ i = 3 /\ ~hasGMP
  \/ i = 4 /\ calcType # NoCalcType /\ calcType \in noCommCalcs

\* the step engine walks over the skipped steps in either direction
RECURSIVE SkipForward(_)
SkipForward(j) ==
  IF j < ReviewStep /\ isStepSkipped(j) THEN SkipForward(j + 1) ELSE j
RECURSIVE SkipBackward(_)
SkipBackward(j) ==
  IF j > 0 /\ isStepSkipped(j) THEN SkipBackward(j - 1) ELSE j

PageOpen == loads # NotOpen
AnyLoaded(l) == "loaded" \in {l.options, l.caps}
\* Promise.all: rejected as soon as one load fails
PromiseAll(l) ==
  IF "failed" \in {l.options, l.caps} THEN "rejected"
  ELSE IF "pending" \in {l.options, l.caps} THEN "pending"
  ELSE "fulfilled"
\* Promise.allSettled: fulfilled once neither load is pending, never rejected
AllSettled(l) ==
  IF "pending" \in {l.options, l.caps} THEN "pending" ELSE "fulfilled"

formVars == <<step, calcType, tranches, lastAction, fromStep>>
loadVars == <<loads, panel, errors>>

\* index.html opens: loadCodeInventory() starts both loads
OpenPage ==
  /\ ~PageOpen
  /\ loads' = [options |-> "pending", caps |-> "pending"]
  /\ UNCHANGED <<runVars, slugVars, scanVars, panel, errors, exportSection, formVars>>
\* loadScript('code-options.js') settles
SettleOptions ==
  /\ loads.options = "pending"
  /\ loads' = [loads EXCEPT !.options = IF optionsFile.exists THEN "loaded" ELSE "failed"]
  /\ UNCHANGED <<runVars, slugVars, scanVars, panel, errors, exportSection, formVars>>
\* loadScript('code-capabilities.js') settles
SettleCapabilities ==
  /\ loads.caps = "pending"
  /\ loads' = [loads EXCEPT !.caps = IF capsFile.exists THEN "loaded" ELSE "failed"]
  /\ UNCHANGED <<runVars, slugVars, scanVars, panel, errors, exportSection, formVars>>
\* the combined promise has left "pending": .then() runs
\* updateCodeInventoryPanel(); a rejection nobody handles is a console error
UpdateCodeInventoryPanel ==
  /\ PageOpen
  /\ panel = "unset" /\ errors = 0
  /\ AllSettled(loads) # "pending"
  /\ IF AllSettled(loads) = "fulfilled"
     THEN /\ panel' = IF AnyLoaded(loads) THEN "shown" ELSE "hidden"
          /\ errors' = errors
     ELSE /\ panel' = panel
          /\ errors' = errors + 1
  /\ UNCHANGED <<runVars, slugVars, scanVars, loads, exportSection, formVars>>
\* an export button of the review step: the Code Inventory section is
\* appended if code files were loaded
Export ==
  /\ PageOpen
  /\ step = ReviewStep
  /\ exportSection' = [done |-> TRUE, present |-> AnyLoaded(loads), loads |-> loads]
  /\ lastAction' = "export"
  /\ fromStep' = step
  /\ UNCHANGED <<runVars, slugVars, scanVars, loadVars, step, calcType, tranches>>

\* the Next button
NextStep ==
  /\ PageOpen
  /\ step < ReviewStep
  /\ step' = SkipForward(step + 1)
  /\ fromStep' = step
  /\ lastAction' = "next"
  /\ UNCHANGED <<runVars, slugVars, scanVars, loadVars, exportSection, calcType, tranches>>
\* the Back button
BackStep ==
  /\ PageOpen
  /\ step > 0
  /\ step' = SkipBackward(step - 1)
  /\ fromStep' = step
  /\ lastAction' = "back"
  /\ UNCHANGED <<runVars, slugVars, scanVars, loadVars, exportSection, calcType, tranches>>
\* step 1: a calc type card is selected
SelectCalcType ==
  /\ PageOpen
  /\ step = 1
  /\ \E ct \in CalcTypes : calcType' = ct
  /\ fromStep' = step
  /\ lastAction' = "edit"
  /\ UNCHANGED <<runVars, slugVars, scanVars, loadVars, exportSection, step, tranches>>
\* step 2: a tranche is added, with GMP not ticked
AddTranche ==
  /\ PageOpen
  /\ step = 2
  /\ Len(tranches) < MaxTranches
  /\ tranches' = Append(tranches, FALSE)
  /\ fromStep' = step
  /\ lastAction' = "edit"
  /\ UNCHANGED <<runVars, slugVars, scanVars, loadVars, exportSection, step, calcType>>
\* step 2: "Includes GMP" of a tranche is ticked or unticked
ToggleGmp ==
  /\ PageOpen
  /\ step = 2
  /\ \E i \in DOMAIN tranches : tranches' = [tranches EXCEPT ![i] = ~tranches[i]]
  /\ fromStep' = step
  /\ lastAction' = "edit"
  /\ UNCHANGED <<runVars, slugVars, scanVars, loadVars, exportSection, step, calcType>>

\* the page is opened next to output files an extractor run has left, or none
SampleOptionsFile == WrittenFile(Aggregate(OptionsOfModule(LoadModule("dir", FileCoreGmp))))
SampleCapsFile == WrittenFile(Aggregate(CapabilitiesOfModule(LoadModule("dir", FileCoreGmp))))
WizardInit ==
  /\ mode = "dir" /\ corpus = {} /\ enumOrder = <<>> /\ pc = "idle" /\ todo = <<>>
  /\ idx = 1 /\ modules = <<>> /\ options = <<>> /\ caps = <<>> /\ diags = {}
  /\ optionsFile \in {NoFile, SampleOptionsFile}
  /\ capsFile \in {NoFile, SampleCapsFile}
  /\ exitCode = -1 /\ runs = 0
  /\ prev = NoPrev /\ inputReadable = TRUE /\ report = NoReport
  /\ before = OutputFiles(optionsFile, capsFile) /\ crashAt = "none" /\ edits = 0
  /\ seen = [options |-> NotLoaded, caps |-> NotLoaded]
  /\ SlugIdle
  /\ WizIdle
  /\ ScanIdle

WizardNext ==
  \/ OpenPage
  \/ SettleOptions
  \/ SettleCapabilities
  \/ UpdateCodeInventoryPanel
  \/ Export
  \/ NextStep
  \/ BackStep
  \/ SelectCalcType
  \/ AddTranche
  \/ ToggleGmp

WizardSpec == WizardInit /\ [][WizardNext]_vars

(***************************************************************************)
(* The Attribute Locator on the text of one marker: capture of the argument *)
(* text up to the matching closing parenthesis, then the named arguments.  *)
(***************************************************************************)
ArgAlphabet == {"(", ")", "a"}
ArgStrings == UNION {[1..n -> ArgAlphabet] : n \in 0..MaxArgLen}
ShortArgStrings == {s \in ArgStrings : Len(s) < MaxArgLen}
Quote == "\""
\* the source text from the opening parenthesis of a marker
\*   (N="<name>",W="<why>")]
\* to the end of the parameter list of the declaration that follows it
MarkerText(name, why) ==
  <<"(", "N", "=", Quote>> \o name \o <<Quote, ",", "W", "=", Quote>> \o why
    \o <<Quote, ")", "]", "c", "(", "x", ")">>
\* the closing parenthesis the marker itself ends with
OwnClose(name, why) == 11 + Len(name) + Len(why)

RECURSIVE CloseFrom(_, _, _)
\* bracket counting: the position at which the depth returns to zero, 0 if
\* it never does
CloseFrom(t, i, depth) ==
  IF i > Len(t) THEN 0
  ELSE IF t[i] = "(" THEN CloseFrom(t, i + 1, depth + 1)
  ELSE IF t[i] = ")"
       THEN (IF depth = 1 THEN i ELSE CloseFrom(t, i + 1, depth - 1))
  ELSE CloseFrom(t, i + 1, depth)
\* variant that stops at the first closing parenthesis
FirstClose(t) ==
  IF \E i \in DOMAIN t : t[i] = ")"
  THEN CHOOSE i \in DOMAIN t : t[i] = ")" /\ \A j \in 1..(i - 1) : t[j] # ")"
  ELSE 0
\* the closing delimiter that matches the opening one at position 1
MatchingClose(t) == CloseFrom(t, 1, 0)

\* the places where the argument <key>="..." starts and where its string ends
ValueStarts(c, key) ==
  {i \in 1..(Len(c) - 2) : c[i] = key /\ c[i + 1] = "=" /\ c[i + 2] = Quote}
ValueEnds(c, i) == {j \in (i + 3)..Len(c) : c[j] = Quote}
Min(S) == CHOOSE x \in S : \A y \in S : x <= y
\* the argument has a value when its string literal is closed
HasValue(c, key) ==
  /\ ValueStarts(c, key) # {}
  /\ ValueEnds(c, Min(ValueStarts(c, key))) # {}
ValueOf(c, key) ==
  LET i == Min(ValueStarts(c, key))
  IN SubSeq(c, i + 3, Min(ValueEnds(c, i)) - 1)
\* the named arguments found in the captured text
ParseArgs(c) ==
  (IF HasValue(c, "N") THEN [Name |-> ValueOf(c, "N")] ELSE NoArgs)
    @@ (IF HasValue(c, "W") THEN [WhyItMatters |-> ValueOf(c, "W")] ELSE NoArgs)
\* one marker: unbalanced delimiters make it malformed
ScanMarker(t) ==
  LET e == MatchingClose(t)
  IN IF e = 0 THEN [closeAt |-> 0, fault |-> "unbalanced", args |-> NoArgs]
     ELSE [closeAt |-> e, fault |-> "none", args |-> ParseArgs(SubSeq(t, 2, e - 1))]

\* no extraction run, no page
NothingElse ==
  /\ mode = "dir" /\ corpus = {} /\ enumOrder = <<>> /\ pc = "idle" /\ todo = <<>>
  /\ idx = 1 /\ modules = <<>> /\ options = <<>> /\ caps = <<>> /\ diags = {}
  /\ optionsFile = NoFile /\ capsFile = NoFile /\ exitCode = -1 /\ runs = 0
  /\ prev = NoPrev /\ inputReadable = TRUE /\ report = NoReport
  /\ before = OutputFiles(NoFile, NoFile) /\ crashAt = "none" /\ edits = 0
  /\ seen = [options |-> NotLoaded, caps |-> NotLoaded]
  /\ SlugIdle
  /\ WizIdle
CaptureInit ==
  /\ NothingElse
  /\ scanIn \in {[text |-> MarkerText(n, w), name |-> n, why |-> w] :
                   n \in ArgStrings, w \in ShortArgStrings}
  /\ scanOut = <<>>
  /\ scanDone = FALSE
CaptureMarker ==
  /\ ~scanDone
  /\ scanOut' = ScanMarker(scanIn.text)
  /\ scanDone' = TRUE
  /\ UNCHANGED <<runVars, slugVars, wizVars, scanIn>>
CaptureNext == CaptureMarker
CaptureSpec == CaptureInit /\ [][CaptureNext]_vars

(***************************************************************************)
(* The Attribute Locator on the lines of one file: every marker is bound   *)
(* to the nearest declaration that follows it within the lookahead window. *)
(* A line is a "marker", a class or method "decl", or "other" text (blank, *)
(* comment, another attribute).                                            *)
(***************************************************************************)
LineKinds == {"marker", "decl", "other"}
SourceTexts == UNION {[1..n -> LineKinds] : n \in 0..MaxLines}
RECURSIVE NextDecl(_, _, _)
\* the first declaration line among the lines j..last, 0 if there is none
NextDecl(lines, j, last) ==
  IF j > last \/ j > Len(lines) THEN 0
  ELSE IF lines[j] = "decl" THEN j
  ELSE NextDecl(lines, j + 1, last)
\* variant that looks for the declaration up to the end of the file
BindAnywhere(lines, i) == NextDecl(lines, i + 1, Len(lines))
\* the declaration the marker of line i belongs to, 0 if it is orphaned
Bind(lines, i) == NextDecl(lines, i + 1, i + LookaheadWindow)
RECURSIVE ScanLines(_, _, _)
\* the scan of the lines from line i on: a marker without declaration is
\* logged and the scan goes on
ScanLines(lines, i, acc) ==
  IF i > Len(lines) THEN acc
  ELSE IF lines[i] # "marker" THEN ScanLines(lines, i + 1, acc)
  ELSE IF Bind(lines, i) = 0
       THEN ScanLines(lines, i + 1, [acc EXCEPT !.orphaned = acc.orphaned \cup {i}])
  ELSE ScanLines(lines, i + 1,
                 [acc EXCEPT !.bound = Append(acc.bound,
                                              [marker |-> i, decl |-> Bind(lines, i)])])
NothingFound == [bound |-> <<>>, orphaned |-> {}]

BinderInit ==
  /\ NothingElse
  /\ scanIn \in SourceTexts
  /\ scanOut = NothingFound
  /\ scanDone = FALSE
BindMarkers ==
  /\ ~scanDone
  /\ scanOut' = ScanLines(scanIn, 1, NothingFound)
  /\ scanDone' = TRUE
  /\ UNCHANGED <<runVars, slugVars, wizVars, scanIn>>
BinderNext == BindMarkers
BinderSpec == BinderInit /\ [][BinderNext]_vars

(***************************************************************************)
(* Properties of a finished run.  They are stated on the two written files *)
(* and on the loaded modules, not on the builder's intermediate lists.     *)
(***************************************************************************)
Done == pc = "done"
\* the records of a written catalog, each with the key it is filed under
Entries(file) ==
  UNION {{[key |-> file.catalog[n].key, rec |-> file.catalog[n].records[k]] :
            k \in DOMAIN file.catalog[n].records} : n \in DOMAIN file.catalog}
OptionEntries == Entries(optionsFile)
CapabilityEntries == Entries(capsFile)
HasParent(c) == "parentOption" \in DOMAIN c.rec

\* a well-formed marker that has both required fields, as the data model
\* words it
MarkerComplete(decl) ==
  /\ decl.marked
  /\ "fault" \notin DOMAIN decl
  /\ {"Category", "Name"} \subseteq DOMAIN decl.args
  /\ decl.args.Category # <<>>
  /\ decl.args.Name # <<>>
\* positions of the class declarations and of the method declarations in
\* the loaded modules: <<module, class>> and <<module, class, method>>
ClassPositions ==
  UNION {{<<i, j>> : j \in DOMAIN modules[i].classes} : i \in DOMAIN modules}
MethodPositions ==
  UNION {{<<p[1], p[2], k>> : k \in DOMAIN modules[p[1]].classes[p[2]].methods} :
           p \in ClassPositions}
ClassAt(p) == modules[p[1]].classes[p[2]]
MethodAt(p) == modules[p[1]].classes[p[2]].methods[p[3]]
\* the record o was made from the class at p; the record c from the method at p
OptionFrom(o, p) ==
  /\ o.rec.codeClass = ClassAt(p).name
  /\ o.rec.scheme = modules[p[1]].scheme
  /\ o.rec.lastModified = modules[p[1]].lastModified
CapabilityFrom(c, p) ==
  /\ c.rec.methodName = MethodAt(p).name
  /\ c.rec.parameters = MethodAt(p).parameters
  /\ c.rec.codeClass = ClassAt(p).name
  /\ c.rec.scheme = modules[p[1]].scheme
  /\ c.rec.lastModified = modules[p[1]].lastModified
\* the capability c points back at the option o
RefersTo(c, o) ==
  /\ HasParent(c)
  /\ c.rec.parentOption.id = o.rec.id
  /\ c.rec.parentOption.name = o.rec.name
  /\ c.rec.codeClass = o.rec.codeClass
  /\ c.rec.scheme = o.rec.scheme
  /\ c.rec.lastModified = o.rec.lastModified

C3_ParentIffOptionClass ==
  Done =>
    \A c \in CapabilityEntries : \A p \in MethodPositions :
      CapabilityFrom(c, p) =>
        /\ HasParent(c) <=> MarkerComplete(ClassAt(p))
        /\ HasParent(c) => c.rec.parentOption.name = ClassAt(p).args.Name
\* a linked capability filed under another category than its Option, next to
\* a standalone capability of a class whose marker is incomplete
C3_Witness ==
  /\ Done
  /\ \E c \in CapabilityEntries, o \in OptionEntries : RefersTo(c, o) /\ c.key # o.key
  /\ \E c \in CapabilityEntries, p \in MethodPositions :
       CapabilityFrom(c, p) /\ ClassAt(p).marked /\ ~HasParent(c)

\* the number of Capability records written for the method at p
RecordsOfMethod(p) == Cardinality({c \in CapabilityEntries : CapabilityFrom(c, p)})
PosLess(p, q) ==
  \E n \in DOMAIN p : p[n] < q[n] /\ \A m \in 1..(n - 1) : p[m] = q[m]
\* a later method marker of the same category whose method has the same id
ReplacedMethod(p) ==
  \E q \in MethodPositions :
    /\ PosLess(p, q)
    /\ MarkerComplete(MethodAt(q))
    /\ ToLower(MethodAt(q).args.Category) = ToLower(MethodAt(p).args.Category)
    /\ ToSnakeCase(MethodAt(q).name) = ToSnakeCase(MethodAt(p).name)

C5_NoPartialEntity ==
  Done =>
    /\ \A o \in OptionEntries :
         /\ o.rec.name # <<>> /\ o.key # <<>>
         /\ \E p \in ClassPositions :
              /\ OptionFrom(o, p) /\ MarkerComplete(ClassAt(p))
              /\ o.rec.name = ClassAt(p).args.Name
              /\ o.key = ToLower(ClassAt(p).args.Category)
    /\ \A c \in CapabilityEntries :
         /\ c.rec.name # <<>> /\ c.key # <<>>
         /\ \E p \in MethodPositions :
              /\ CapabilityFrom(c, p) /\ MarkerComplete(MethodAt(p))
              /\ c.rec.name = MethodAt(p).args.Name
              /\ c.key = ToLower(MethodAt(p).args.Category)
    /\ \A p \in ClassPositions :
         (ClassAt(p).marked /\ Fault(ClassAt(p)) = "none" /\ ~MarkerComplete(ClassAt(p)))
           => /\ [kind |-> "missing_field", path |-> modules[p[1]].path,
                  decl |-> ClassAt(p).name] \in diags
              /\ ~\E o \in OptionEntries : OptionFrom(o, p)
    /\ \A p \in MethodPositions :
         (MethodAt(p).marked /\ Fault(MethodAt(p)) = "none" /\ ~MarkerComplete(MethodAt(p)))
           => /\ [kind |-> "missing_field", path |-> modules[p[1]].path,
                  decl |-> MethodAt(p).name] \in diags
              /\ RecordsOfMethod(p) = 0
\* a run over markers without Name, without Category and with an empty Name,
\* next to a complete marker that was written
C5_Witness ==
  /\ Done
  /\ \E p \in ClassPositions : ClassAt(p).marked /\ "Name" \notin DOMAIN ClassAt(p).args
  /\ \E p \in MethodPositions :
       MethodAt(p).marked /\ "Category" \notin DOMAIN MethodAt(p).args
  /\ \E p \in MethodPositions :
       /\ MethodAt(p).marked /\ "Name" \in DOMAIN MethodAt(p).args
       /\ MethodAt(p).args.Name = <<>>
  /\ CapabilityEntries # {}

\* C6 as claimed: Core/A.cs with the class marker (Revaluation, "Fixed Rate")
\* and no method marker yields exactly one Option, in category revaluation,
\* with the slug of the display name as its id, scheme Core, and no Capability.
C6_IdIsSlugOfDisplayName ==
  (Done /\ mode = "dir" /\ corpus = {FileCoreA}) =>
    /\ Len(optionsFile.catalog) = 1
    /\ optionsFile.catalog[1].key = K_revaluation
    /\ Len(optionsFile.catalog[1].records) = 1
    /\ optionsFile.catalog[1].records[1].id = Slug(D_FixedRate)
    /\ optionsFile.catalog[1].records[1].id = I_fixed_rate
    /\ optionsFile.catalog[1].records[1].scheme = S_Core
    /\ capsFile.catalog = <<>>
\* C6 as amended: the same file yields exactly one Option, in category
\* revaluation, whose id is the snake_case form of the class name
\* FixedRateRevaluation, with scheme Core, and no Capability.
C6_IdIsSnakeCaseOfClassName ==
  (Done /\ mode = "dir" /\ corpus = {FileCoreA}) =>
    /\ Len(optionsFile.catalog) = 1
    /\ optionsFile.catalog[1].key = K_revaluation
    /\ Len(optionsFile.catalog[1].records) = 1
    /\ optionsFile.catalog[1].records[1].id = I_fixed_rate_revaluation
    /\ optionsFile.catalog[1].records[1].name = D_FixedRate
    /\ optionsFile.catalog[1].records[1].scheme = S_Core
    /\ capsFile.catalog = <<>>
\* the run over Core/A.cs alone has written both catalogs
C6_Witness ==
  /\ Done /\ mode = "dir" /\ corpus = {FileCoreA}
  /\ optionsFile.exists /\ capsFile.exists
  /\ Len(optionsFile.catalog) = 1

\* the identifier's letters and digits, lowercased, without the underscores
WithoutUnderscores(s) == SelectSeq(s, LAMBDA ch : ch # "_")
\* C7: ids are the snake_case form of the code identifier: of the class name
\* for an Option, of the method name for a Capability.
C7_IdsFromIdentifiers ==
  Done =>
    /\ \A o \in OptionEntries :
         /\ WithoutUnderscores(o.rec.id) = ToLower(o.rec.codeClass)
         /\ o.rec.codeClass = N_FixedRateRevaluation => o.rec.id = I_fixed_rate_revaluation
         /\ o.rec.codeClass = N_GmpEqualiser => o.rec.id = I_gmp_equaliser
    /\ \A c \in CapabilityEntries :
         /\ WithoutUnderscores(c.rec.id) = ToLower(c.rec.methodName)
         /\ c.rec.methodName = N_CheckAntiFranking => c.rec.id = I_check_anti_franking
         /\ c.rec.methodName = N_ApplySection148 => c.rec.id = I_apply_section148
         /\ c.rec.methodName = N_CalculatePartialCetv => c.rec.id = I_calculate_partial_cetv
\* a run that wrote the Option of GmpEqualiser with its two capabilities
C7_Witness ==
  /\ Done
  /\ \E o \in OptionEntries : o.rec.codeClass = N_GmpEqualiser /\ o.rec.id = I_gmp_equaliser
  /\ \E c \in CapabilityEntries : c.rec.methodName = N_CheckAntiFranking
  /\ \E c \in CapabilityEntries : c.rec.methodName = N_ApplySection148

\* the letters and digits of a string, lowercased
AlnumLower(s) == ToLower(SelectSeq(s, IsAlnum))
\* the runs of non-alphanumeric characters that have a letter or digit on
\* both sides: the positions where such a run ends
InnerRunEnds(s) ==
  {i \in DOMAIN s :
     /\ ~IsAlnum(s[i])
     /\ i < Len(s) /\ IsAlnum(s[i + 1])
     /\ \E j \in 1..(i - 1) : IsAlnum(s[j])}
OptionSources == {p \in ClassPositions : MarkerComplete(ClassAt(p))}
CapabilitySources == {p \in MethodPositions : MarkerComplete(MethodAt(p))}
DeclAt(p) == IF Len(p) = 2 THEN ClassAt(p) ELSE MethodAt(p)
SourceKey(p) == ToLower(DeclAt(p).args.Category)
SourceId(p) == ToSnakeCase(DeclAt(p).name)
SameSlot(p, q) == SourceKey(p) = SourceKey(q) /\ SourceId(p) = SourceId(q)
\* p is the last source of its category and id
LastOfSlot(S, p) == ~\E q \in S : PosLess(p, q) /\ SameSlot(p, q)
\* the places of a written catalog that hold a record with this key and id
Places(file, key, id) ==
  UNION {{<<n, k>> : k \in {k \in DOMAIN file.catalog[n].records :
                             file.catalog[n].records[k].id = id}} :
           n \in {n \in DOMAIN file.catalog : file.catalog[n].key = key}}
RecordAt(file, pl) == [key |-> file.catalog[pl[1]].key, rec |-> file.catalog[pl[1]].records[pl[2]]]
\* the record at the place pl was made from the source p
MadeFrom(file, pl, p) ==
  /\ RecordAt(file, pl).key = SourceKey(p)
  /\ RecordAt(file, pl).rec.id = SourceId(p)
  /\ RecordAt(file, pl).rec.name = DeclAt(p).args.Name
  /\ IF Len(p) = 2 THEN OptionFrom(RecordAt(file, pl), p)
     ELSE CapabilityFrom(RecordAt(file, pl), p)
LastWins(file, S) ==
  \A p, q \in S :
    (PosLess(p, q) /\ SameSlot(p, q) /\ LastOfSlot(S, q)) =>
      /\ Cardinality(Places(file, SourceKey(q), SourceId(q))) = 1
      /\ \A pl \in Places(file, SourceKey(q), SourceId(q)) : MadeFrom(file, pl, q)
      /\ [kind |-> "collision", key |-> SourceKey(q), id |-> SourceId(q)] \in diags

KeysAscending(file) ==
  \A n \in 1..(Len(file.catalog) - 1) :
    LexLess(file.catalog[n].key, file.catalog[n + 1].key)
\* the records of every category are those of the sources that were not
\* replaced, in the order of their positions in the scan
DiscoveryOrder(file, S) ==
  /\ \A n \in DOMAIN file.catalog :
       /\ Len(file.catalog[n].records)
            = Cardinality({p \in S : SourceKey(p) = file.catalog[n].key /\ LastOfSlot(S, p)})
       /\ \A a, b \in DOMAIN file.catalog[n].records :
            a < b => \E p, q \in S :
                       /\ PosLess(p, q)
                       /\ LastOfSlot(S, p) /\ LastOfSlot(S, q)
                       /\ MadeFrom(file, <<n, a>>, p)
                       /\ MadeFrom(file, <<n, b>>, q)
  /\ \A p \in S : \E n \in DOMAIN file.catalog : file.catalog[n].key = SourceKey(p)

\* C10: in both catalogs the category keys ascend alphabetically, and the
\* records of a category stand in the order in which the scan discovered
\* their markers (file order, then position in the file).
C10_CategoryOrder ==
  Done =>
    /\ KeysAscending(optionsFile) /\ KeysAscending(capsFile)
    /\ DiscoveryOrder(optionsFile, OptionSources)
    /\ DiscoveryOrder(capsFile, CapabilitySources)
\* a capabilities catalog with two categories, one of which lists its
\* records against the order of their ids and of their names
C10_Witness ==
  /\ Done
  /\ Len(capsFile.catalog) >= 2
  /\ \E n \in DOMAIN capsFile.catalog :
       \E a, b \in DOMAIN capsFile.catalog[n].records :
         /\ a < b
         /\ LexLess(capsFile.catalog[n].records[b].id, capsFile.catalog[n].records[a].id)
         /\ LexLess(capsFile.catalog[n].records[b].name, capsFile.catalog[n].records[a].name)

\* the characters of s are all outside A..Z
NoUpper(s) == \A i \in DOMAIN s : s[i] \notin Range(UpperChars)
\* the keys of a written catalog
Keys(file) == {file.catalog[n].key : n \in DOMAIN file.catalog}
\* s and t are the same string up to letter case
SameButCase(s, t) ==
  /\ Len(s) = Len(t)
  /\ \A i \in DOMAIN s :
       \/ s[i] = t[i]
       \/ \E k \in DOMAIN UpperChars :
            {s[i], t[i]} = {UpperChars[k], LowerChars[k]}

\* C11: every record is filed under the lowercase form of its marker's
\* category (GMP, Gmp and gmp under gmp), markers whose categories differ
\* only in letter case share one key, and no key has an uppercase letter.
C11_LowercaseKeys ==
  Done =>
    /\ \A file \in {optionsFile, capsFile} :
         /\ \A k \in Keys(file) : NoUpper(k)
         /\ \A n, m \in DOMAIN file.catalog :
              SameButCase(file.catalog[n].key, file.catalog[m].key) => n = m
    /\ \A o \in OptionEntries : \E p \in ClassPositions :
         /\ OptionFrom(o, p) /\ MarkerComplete(ClassAt(p))
         /\ SameButCase(o.key, ClassAt(p).args.Category)
         /\ ClassAt(p).args.Category \in {C_GMP, C_Gmp, C_gmp} => o.key = K_gmp
    /\ \A c \in CapabilityEntries : \E p \in MethodPositions :
         /\ CapabilityFrom(c, p) /\ MarkerComplete(MethodAt(p))
         /\ SameButCase(c.key, MethodAt(p).args.Category)
         /\ MethodAt(p).args.Category \in {C_GMP, C_Gmp, C_gmp} => c.key = K_gmp
\* a run that filed Options whose markers say "Gmp" and "GMP" under one key,
\* and a Capability whose marker says "gmp"
C11_Witness ==
  /\ Done
  /\ \E n \in DOMAIN optionsFile.catalog :
       /\ optionsFile.catalog[n].key = K_gmp
       /\ \E p, q \in ClassPositions :
            /\ ClassAt(p).args.Category = C_Gmp /\ ClassAt(q).args.Category = C_GMP
            /\ \E a, b \in DOMAIN optionsFile.catalog[n].records :
                 /\ optionsFile.catalog[n].records[a].codeClass = ClassAt(p).name
                 /\ optionsFile.catalog[n].records[b].codeClass = ClassAt(q).name
  /\ \E c \in CapabilityEntries, p \in MethodPositions :
       CapabilityFrom(c, p) /\ MethodAt(p).args.Category = C_gmp

\* s is the first segment of the relative path, or empty for a path without
\* a directory part
PathScheme(path, s) ==
  IF "/" \notin Range(path) THEN s = <<>>
  ELSE /\ "/" \notin Range(s)
       /\ Len(s) < Len(path)
       /\ SubSeq(path, 1, Len(s)) = s
       /\ path[Len(s) + 1] = "/"
\* the number of "/" in a path
Depth(path) == Cardinality({i \in DOMAIN path : path[i] = "/"})

\* C12: in directory mode every record's scheme is the first path segment
\* of its file below the scan root, also for a nested file (Core/Sub/X.cs
\* gives Core), and empty for a file directly in the root.
C12_SchemeFromDirectory ==
  (Done /\ mode = "dir") =>
    /\ \A o \in OptionEntries : \E p \in ClassPositions :
         /\ OptionFrom(o, p) /\ MarkerComplete(ClassAt(p))
         /\ PathScheme(modules[p[1]].path, o.rec.scheme)
         /\ modules[p[1]].path = P_CoreSubX => o.rec.scheme = S_Core
    /\ \A c \in CapabilityEntries : \E p \in MethodPositions :
         /\ CapabilityFrom(c, p) /\ MarkerComplete(MethodAt(p))
         /\ PathScheme(modules[p[1]].path, c.rec.scheme)
         /\ modules[p[1]].path = P_CoreSubX => c.rec.scheme = S_Core
\* a directory run that wrote records of a nested file and of a root file
C12_Witness ==
  /\ Done /\ mode = "dir"
  /\ \E o \in OptionEntries, p \in ClassPositions :
       OptionFrom(o, p) /\ Depth(modules[p[1]].path) > 1 /\ o.rec.scheme = S_Core
  /\ \E c \in CapabilityEntries, p \in MethodPositions :
       CapabilityFrom(c, p) /\ Depth(modules[p[1]].path) = 0 /\ c.rec.scheme = <<>>

\* the input record a loaded module was read from
RecordOf(i) == CHOOSE f \in corpus : f.path = modules[i].path
\* a calendar date YYYY-MM-DD without a time part
IsDate(s) ==
  /\ Len(s) = Len(L_Dec)
  /\ \A i \in DOMAIN s :
       IF L_Dec[i] = "-" THEN s[i] = "-" ELSE s[i] \in Range(DigitChars)

\* C13: in JSON mode every record carries the scheme field of its input
\* record verbatim and the record's lastModified cut to the calendar date
\* ("2025-12-01T16:45:00" gives "2025-12-01"); in both modes every
\* lastModified written is a date without a time part.
C13_JsonSchemeAndDate ==
  Done =>
    /\ \A e \in OptionEntries \cup CapabilityEntries : IsDate(e.rec.lastModified)
    /\ mode = "json" =>
         /\ \A o \in OptionEntries : \E p \in ClassPositions :
              /\ OptionFrom(o, p) /\ MarkerComplete(ClassAt(p))
              /\ o.rec.scheme = RecordOf(p[1]).jsonScheme
              /\ o.rec.lastModified \o SubSeq(RecordOf(p[1]).mtime, Len(L_Dec) + 1,
                                             Len(RecordOf(p[1]).mtime))
                   = RecordOf(p[1]).mtime
              /\ RecordOf(p[1]).mtime = T_Dec => o.rec.lastModified = L_Dec
         /\ \A c \in CapabilityEntries : \E p \in MethodPositions :
              /\ CapabilityFrom(c, p) /\ MarkerComplete(MethodAt(p))
              /\ c.rec.scheme = RecordOf(p[1]).jsonScheme
              /\ c.rec.lastModified \o SubSeq(RecordOf(p[1]).mtime, Len(L_Dec) + 1,
                                             Len(RecordOf(p[1]).mtime))
                   = RecordOf(p[1]).mtime
              /\ RecordOf(p[1]).mtime = T_Dec => c.rec.lastModified = L_Dec
\* a JSON run over a record whose scheme field is not what its path would
\* give and a record last modified at 2025-12-01T16:45:00
C13_Witness ==
  /\ Done /\ mode = "json"
  /\ \E o \in OptionEntries, p \in ClassPositions :
       /\ OptionFrom(o, p)
       /\ o.rec.scheme = S_SchemeABC
       /\ ~PathScheme(modules[p[1]].path, o.rec.scheme)
  /\ \E c \in CapabilityEntries, p \in MethodPositions :
       /\ CapabilityFrom(c, p)
       /\ RecordOf(p[1]).mtime = T_Dec
       /\ c.rec.lastModified = L_Dec

\* the public non-constructor methods of the class at p, and those of them
\* that carry a Capability marker
PublicCount(p) ==
  Cardinality({k \in DOMAIN ClassAt(p).methods : ClassAt(p).methods[k].visible})
MarkedCount(p) ==
  Cardinality({k \in DOMAIN ClassAt(p).methods :
                 ClassAt(p).methods[k].visible /\ ClassAt(p).methods[k].marked})
\* the report line e gives the class at p as K/N, with the percentage
\* nearest to 100 K / N, and as 0/0 without a percentage when N = 0
LineGives(e, p) ==
  /\ e.class = ClassAt(p).name
  /\ e.documented = MarkedCount(p)
  /\ e.total = PublicCount(p)
  /\ IF PublicCount(p) > 0
     THEN /\ "percent" \in DOMAIN e
          /\ 2 * (100 * MarkedCount(p) - e.percent * PublicCount(p)) <= PublicCount(p)
          /\ 2 * (e.percent * PublicCount(p) - 100 * MarkedCount(p)) <= PublicCount(p)
     ELSE /\ e.documented = 0 /\ e.total = 0
          /\ "percent" \notin DOMAIN e
\* the lines of the report can be assigned to distinct classes of the corpus
\* so that every line gives the fraction of its class
LinesMatchClasses ==
  \E f \in [DOMAIN report.classes -> ClassPositions] :
    /\ \A i, j \in DOMAIN f : f[i] = f[j] => i = j
    /\ \A i \in DOMAIN f : LineGives(report.classes[i], f[i])

C15_EveryClassListed ==
  (Done /\ report.printed) =>
    /\ \A p \in ClassPositions :
         \E i \in DOMAIN report.classes : LineGives(report.classes[i], p)
    /\ report.overall.total = Cardinality({q \in MethodPositions : MethodAt(q).visible})
    /\ report.overall.documented =
         Cardinality({q \in MethodPositions : MethodAt(q).visible /\ MethodAt(q).marked})

\* the kinds of the diagnostics recorded by the run
DiagKinds == {d.kind : d \in diags}

\* C16: a finished run has a non-zero exit status iff the input path or one
\* of its files cannot be read; a run that read everything exits 0, also
\* with no entity at all and with markers skipped as malformed, orphaned or
\* lacking a field, or overwritten by a collision.
C16_ExitStatus ==
  (pc \in {"done", "failed"}) =>
    /\ exitCode # 0 <=> (~inputReadable \/ \E f \in corpus : ~f.readable)
    /\ exitCode = 0 <=> pc = "done"
\* a run that exited 0 after skipping a malformed, an orphaned and a
\* field-lacking marker and recording a collision
C16_Witness ==
  /\ pc = "done" /\ exitCode = 0
  /\ {"malformed", "orphaned", "missing_field", "collision"} \subseteq DiagKinds

\* a declaration without its marker
Unmarked(decl) == [x \in DOMAIN decl \ {"fault"} |->
                     IF x = "marked" THEN FALSE ELSE IF x = "args" THEN NoArgs ELSE decl[x]]
\* a marker the run has to skip: malformed or lacking a required field
Skipped(decl) == decl.marked /\ ~MarkerComplete(decl)
WellFormedOnly(decl) == IF Skipped(decl) THEN Unmarked(decl) ELSE decl
\* the module as it would be loaded if its skipped and orphaned markers were
\* not in the file
WithoutSkipped(mod) ==
  [mod EXCEPT
     !.orphans = <<>>,
     !.classes = [i \in DOMAIN mod.classes |->
                    [WellFormedOnly(mod.classes[i]) EXCEPT
                       !.methods = [k \in DOMAIN mod.classes[i].methods |->
                                      WellFormedOnly(mod.classes[i].methods[k])]]]]
RECURSIVE OptionsOfRun(_)
RECURSIVE CapabilitiesOfRun(_)
\* the entities of a run over the modules mods
OptionsOfRun(mods) ==
  IF mods = <<>> THEN <<>>
  ELSE AddAll(OptionsOfRun(SubSeq(mods, 1, Len(mods) - 1)), OptionsOfModule(mods[Len(mods)]))
CapabilitiesOfRun(mods) ==
  IF mods = <<>> THEN <<>>
  ELSE AddAll(CapabilitiesOfRun(SubSeq(mods, 1, Len(mods) - 1)),
              CapabilitiesOfModule(mods[Len(mods)]))
\* the markers the run skipped
SkippedMarkers ==
  {p \in ClassPositions : Skipped(ClassAt(p))} \cup {p \in MethodPositions : Skipped(MethodAt(p))}

\* C18: the two catalogs are those of the same corpus without its
\* malformed, orphaned and field-lacking markers: a skipped marker takes
\* nothing but its own entity out of the output.
C18_PerItemRecovery ==
  Done =>
    /\ optionsFile.catalog = Aggregate(OptionsOfRun(SeqMap(modules, WithoutSkipped)))
    /\ capsFile.catalog = Aggregate(CapabilitiesOfRun(SeqMap(modules, WithoutSkipped)))
\* a run that skipped a malformed, an orphaned and a field-lacking marker
\* and wrote the capability of a well-formed marker of the same file and an
\* entity of another file
C18_Witness ==
  /\ Done
  /\ {"malformed", "orphaned", "missing_field"} \subseteq DiagKinds
  /\ \E c \in CapabilityEntries, p \in MethodPositions :
       /\ CapabilityFrom(c, p)
       /\ \E q \in SkippedMarkers : q[1] = p[1] /\ Fault(DeclAt(q)) # "none"
  /\ \E c \in CapabilityEntries, p \in MethodPositions :
       /\ CapabilityFrom(c, p)
       /\ \E q \in SkippedMarkers : q[1] # p[1]

\* the fields of the two records of CODE_CAPABILITIES.transfers
StandaloneFields ==
  {"id", "name", "description", "whyItMatters", "methodName", "returnType", "parameters",
   "codeClass", "scheme", "lastModified"}

\* C19 as claimed: every record of the capabilities catalog has a
\* parentOption field, which is empty when the capability has no parent.
C19_ParentOptionAlwaysPresent ==
  Done => \A c \in CapabilityEntries : "parentOption" \in DOMAIN c.rec
\* C19 as amended: a record of the capabilities catalog has a parentOption
\* field exactly when its class produced an Option, and then the field holds
\* that Option's id and name; the record of a capability without parent has
\* no parentOption field at all.
C19_ParentOptionOmitted ==
  Done =>
    \A c \in CapabilityEntries :
      /\ "parentOption" \in DOMAIN c.rec
           => /\ DOMAIN c.rec.parentOption = {"id", "name"}
              /\ c.rec.parentOption.id # <<>> /\ c.rec.parentOption.name # <<>>
              /\ \E p \in MethodPositions : CapabilityFrom(c, p) /\ MarkerComplete(ClassAt(p))
      /\ "parentOption" \notin DOMAIN c.rec
           => /\ DOMAIN c.rec \subseteq StandaloneFields
              /\ \E p \in MethodPositions : CapabilityFrom(c, p) /\ ~MarkerComplete(ClassAt(p))
\* a catalog with the two records of TransferCalculator, neither with a
\* parentOption field, next to a record that has one
C19_Witness ==
  /\ Done
  /\ \E c, d \in CapabilityEntries :
       /\ c.rec.id = I_calculate_partial_cetv /\ c.rec.codeClass = N_TransferCalculator
       /\ d.rec.codeClass = N_TransferCalculator /\ d.rec.id # c.rec.id
       /\ DOMAIN c.rec = StandaloneFields
       /\ DOMAIN d.rec = StandaloneFields \ {"whyItMatters"}
  /\ \E c \in CapabilityEntries : "parentOption" \in DOMAIN c.rec

\* the modules of the current input, and the two files a run over it writes
InputModules == SeqMap(ProcessingOrder(mode, enumOrder), LAMBDA f : LoadModule(mode, f))
NewOptionsFile == [exists |-> TRUE, catalog |-> Aggregate(OptionsOfRun(InputModules))]
NewCapsFile == [exists |-> TRUE, catalog |-> Aggregate(CapabilitiesOfRun(InputModules))]
\* while a run is under way each output file is the complete file the run
\* found or the complete file the run writes
CompleteVersions ==
  pc # "idle" =>
    /\ optionsFile = before.optionsFile \/ optionsFile = NewOptionsFile
    /\ capsFile = before.capsFile \/ capsFile = NewCapsFile
Untouched == optionsFile = before.optionsFile /\ capsFile = before.capsFile

Identities(file) == {<<e.key, e.rec.codeClass, e.rec.id>> : e \in Entries(file)}

\* C20: after every successful run the two catalogs are what a run over
\* that run's input alone writes: a record of the previous output whose
\* marker is no longer in the input is not in the new output.
C20_Stateless ==
  Done =>
    /\ optionsFile = NewOptionsFile
    /\ capsFile = NewCapsFile
    /\ \A o \in OptionEntries : \E p \in ClassPositions :
         MarkerComplete(ClassAt(p)) /\ OptionFrom(o, p) /\ o.rec.id = ToSnakeCase(ClassAt(p).name)
    /\ \A c \in CapabilityEntries : \E p \in MethodPositions :
         MarkerComplete(MethodAt(p)) /\ CapabilityFrom(c, p)
\* a successful run after a successful run, between which a marker was
\* removed or a class renamed or deleted: a record of the previous options
\* catalog is gone, and the capabilities catalog has changed
C20_Witness ==
  /\ Done /\ prev.valid /\ prev.exitCode = 0 /\ edits > 0
  /\ Identities(prev.optionsFile) \ Identities(optionsFile) # {}
  /\ capsFile # prev.capsFile

(***************************************************************************)
(* Properties of the specbuilder page.                                     *)
(***************************************************************************)
BothSettled ==
  /\ loads.options \in {"loaded", "failed"}
  /\ loads.caps \in {"loaded", "failed"}
SomeCatalogThere == optionsFile.exists \/ capsFile.exists

\* C21: whichever of the two catalog files exist and in whichever order the
\* two loads settle, the Code Inventory panel is updated only after both
\* loads have settled, the panel and the export section are there iff at
\* least one catalog loaded, a missing file raises no error, and the page
\* leaves both files as they were.
C21_ConsumerTolerance ==
  /\ panel # "unset" => BothSettled
  /\ loads.options = "loaded" => optionsFile.exists
  /\ loads.caps = "loaded" => capsFile.exists
  /\ BothSettled =>
       /\ loads.options = "failed" => ~optionsFile.exists
       /\ loads.caps = "failed" => ~capsFile.exists
  /\ panel # "unset" => (panel = "shown" <=> SomeCatalogThere)
  /\ exportSection.done =>
       /\ exportSection.present
            <=> "loaded" \in {exportSection.loads.options, exportSection.loads.caps}
       /\ exportSection.present => SomeCatalogThere
       /\ "pending" \notin {exportSection.loads.options, exportSection.loads.caps}
            => (exportSection.present <=> SomeCatalogThere)
  /\ errors = 0
  /\ optionsFile = before.optionsFile
  /\ capsFile = before.capsFile
\* the options file is missing, the capabilities file loaded: the panel is
\* shown and an export made after that has the section
C21_Witness ==
  /\ loads.options = "failed" /\ loads.caps = "loaded"
  /\ ~optionsFile.exists /\ capsFile.exists
  /\ panel = "shown"
  /\ exportSection.done /\ exportSection.present
  /\ exportSection.loads = loads

\* the steps the form leaves out, in the words of its description
NoTrancheHasGmp == \A k \in DOMAIN tranches : ~tranches[k]
LeftOut(i) ==
  \/ i = 3 /\ NoTrancheHasGmp
  \/ i = 4 /\ calcType \in {"transfer_out", "death_before_ret", "death_after_ret"}
\* C22: step 3 is skipped exactly when no tranche has GMP ticked and step 4
\* exactly for Transfer Out and the two Death calc types; the form never
\* shows a skipped step, Next lands on the nearest later step that is not
\* skipped and Back on the nearest earlier one.
C22_StepSkipping ==
  /\ \A i \in Steps : isStepSkipped(i) <=> LeftOut(i)
  /\ step \in Steps /\ ~LeftOut(step)
  /\ lastAction = "next" =>
       /\ step > fromStep
       /\ \A k \in (fromStep + 1)..(step - 1) : LeftOut(k)
  /\ lastAction = "back" =>
       /\ step < fromStep
       /\ \A k \in (step + 1)..(fromStep - 1) : LeftOut(k)
\* Back from step 5 over both skipped steps to step 2, with tranches entered
C22_Witness ==
  /\ lastAction = "back" /\ fromStep = 5 /\ step = 2
  /\ Len(tranches) = 2
  /\ calcType = "death_after_ret"

\* the file a source position lies in
PathOf(p) == modules[p[1]].path
\* the records of every category that come from different files stand in the
\* lexical order of the paths of their files
PathOrder(file, S) ==
  \A n \in DOMAIN file.catalog :
    \A a, b \in DOMAIN file.catalog[n].records :
      a < b =>
        \A p, q \in S :
          (/\ LastOfSlot(S, p) /\ LastOfSlot(S, q)
           /\ MadeFrom(file, <<n, a>>, p) /\ MadeFrom(file, <<n, b>>, q)
           /\ PathOf(p) # PathOf(q))
            => LexLess(PathOf(p), PathOf(q))
\* the directory listing returns the file of q before the file of p
ListedBefore(q, p) ==
  \E i, j \in DOMAIN enumOrder :
    i < j /\ enumOrder[i].path = PathOf(q) /\ enumOrder[j].path = PathOf(p)
\* of the sources of one category and id that lie in different files, the one
\* in the file with the lexically largest path made the record that is kept
LaterPathWins(file, S) ==
  \A p, q \in S :
    (SameSlot(p, q) /\ PathOf(p) # PathOf(q)) =>
      \A pl \in Places(file, SourceKey(p), SourceId(p)) :
        \E w \in S :
          /\ SameSlot(w, p) /\ MadeFrom(file, pl, w)
          /\ \A r \in S : SameSlot(r, p) => ~LexLess(PathOf(w), PathOf(r))
Count(s, ch) == Cardinality({i \in DOMAIN s : s[i] = ch})
HasParens(s) == Count(s, "(") + Count(s, ")") > 0
\* every "(" of s has a later ")" of s as its partner, and every ")" an
\* earlier "("
PairUp(s) ==
  /\ Count(s, "(") = Count(s, ")")
  /\ \A k \in 0..Len(s) : Count(SubSeq(s, 1, k), "(") >= Count(SubSeq(s, 1, k), ")")
LiteralText == scanIn.name \o scanIn.why
\* the capture ended at the marker's own closing parenthesis and both
\* arguments came out as written
CapturedUnchanged ==
  /\ scanOut.closeAt = OwnClose(scanIn.name, scanIn.why)
  /\ scanOut.fault = "none"
  /\ DOMAIN scanOut.args = {"Name", "WhyItMatters"}
  /\ scanOut.args.Name = scanIn.name
  /\ scanOut.args.WhyItMatters = scanIn.why
SpecCategoryNames == {C_Revaluation, C_Commutation, C_GMP, C_Transfers, C_Builder}
InTable(ref) == ref.table = "SpecCategories" /\ ref.name \in SpecCategoryNames
NamesUnknown(decl) ==
  /\ decl.marked
  /\ "refs" \in DOMAIN decl
  /\ \E k \in DOMAIN decl.refs : ~InTable(decl.refs[k])
\* the declaration with its marker written with string literals throughout,
\* Category = "GMP" for Category = SpecCategories.GMP, and without its marker
\* when that names an identifier the table does not have
WrittenOut(decl) ==
  IF "refs" \notin DOMAIN decl THEN decl
  ELSE [x \in DOMAIN decl \ {"refs"} |->
          IF x = "args"
          THEN (IF NamesUnknown(decl) THEN NoArgs
                ELSE [k \in DOMAIN decl.refs |-> decl.refs[k].name] @@ decl.args)
          ELSE IF x = "marked" THEN ~NamesUnknown(decl)
          ELSE decl[x]]
LiteralFile(f) ==
  [f EXCEPT !.classes =
     [i \in DOMAIN f.classes |->
        [WrittenOut(f.classes[i]) EXCEPT
           !.methods = [k \in DOMAIN f.classes[i].methods |->
                          WrittenOut(f.classes[i].methods[k])]]]]
LiteralModules ==
  SeqMap(ProcessingOrder(mode, enumOrder), LAMBDA f : LoadModule(mode, LiteralFile(f)))
\* the declarations of the input whose marker names an unknown identifier
UnknownRefs ==
  UNION {UNION {(IF NamesUnknown(f.classes[i])
                 THEN {[path |-> f.path, decl |-> f.classes[i].name]} ELSE {})
                \cup {[path |-> f.path, decl |-> f.classes[i].methods[k].name] :
                        k \in {j \in DOMAIN f.classes[i].methods :
                                 NamesUnknown(f.classes[i].methods[j])}} :
                i \in DOMAIN f.classes} : f \in corpus}
UnresolvedDiags == {d \in diags : d.kind = "malformed" /\ d.why = "unresolved"}
\* C25: the two catalogs are those of the same corpus with every constant of
\* the table written as its string literal and without the markers that
\* name an identifier the table does not have; each of those markers, and
\* no other, has an unresolved-reference diagnostic.
C25_ConstantResolution ==
  Done =>
    /\ optionsFile.catalog = Aggregate(OptionsOfRun(LiteralModules))
    /\ capsFile.catalog = Aggregate(CapabilitiesOfRun(LiteralModules))
    /\ {[path |-> d.path, decl |-> d.decl] : d \in UnresolvedDiags} = UnknownRefs
\* a run over Abc/Odd.cs and Local.cs: the capability of the marker with
\* Category = SpecCategories.Revaluation and the Option of the marker with
\* Category = SpecCategories.GMP are written, the marker with
\* SpecCategories.Pensions is reported
C25_Witness ==
  /\ Done
  /\ \E c \in CapabilityEntries :
       c.key = K_revaluation /\ c.rec.name = D_FixedRate /\ c.rec.codeClass = N_OddRule
  /\ \E o \in OptionEntries : o.key = K_gmp /\ o.rec.name = D_Empty
  /\ [path |-> P_AbcOdd, decl |-> N_CalculateProRata] \in UnknownRefs
  /\ \E o \in OptionEntries : o.rec.codeClass = N_OddRule

MarkerLines == {i \in DOMAIN scanIn : scanIn[i] = "marker"}
\* the declaration lines within the window of the marker of line i
InWindow(i) ==
  {j \in DOMAIN scanIn : scanIn[j] = "decl" /\ i < j /\ j <= i + LookaheadWindow}
BoundTo(i) == {scanOut.bound[n].decl : n \in {m \in DOMAIN scanOut.bound :
                                                 scanOut.bound[m].marker = i}}
\* C26: a marker with no declaration in its lookahead window is logged as
\* orphaned, yields nothing and is bound to no declaration further down; the
\* scan goes on, and every other marker is bound to exactly the nearest
\* declaration that follows it.
C26_OrphanedMarker ==
  scanDone =>
    /\ \A i \in MarkerLines :
         IF InWindow(i) = {}
         THEN i \in scanOut.orphaned /\ BoundTo(i) = {}
         ELSE /\ i \notin scanOut.orphaned
              /\ BoundTo(i) = {Min(InWindow(i))}
    /\ Len(scanOut.bound) = Cardinality({i \in MarkerLines : InWindow(i) # {}})
    /\ scanOut.orphaned \subseteq MarkerLines
\* a marker whose only following declaration lies beyond its window, and a
\* later marker of the file bound to that declaration
C26_Witness ==
  /\ scanDone
  /\ \E i, k \in MarkerLines, j \in DOMAIN scanIn :
       /\ i < k /\ k < j
       /\ scanIn[j] = "decl" /\ j > i + LookaheadWindow
       /\ i \in scanOut.orphaned
       /\ BoundTo(k) = {j}

(***************************************************************************)
(* Properties of the coverage report.                                      *)
(***************************************************************************)
RECURSIVE LineSum(_, _)
\* the sum of the field f over the first n lines of the report
LineSum(f, n) == IF n = 0 THEN 0 ELSE report.classes[n][f] + LineSum(f, n - 1)
SumK == LineSum("documented", Len(report.classes))
SumN == LineSum("total", Len(report.classes))
\* the fractions K/N of the lines of the report
LineFractions ==
  {<<report.classes[i].documented, report.classes[i].total>> : i \in DOMAIN report.classes}
\* C27: the overall line of the coverage report gives the sum of K and the
\* sum of N over the lines of the report, and the percentage nearest to
\* 100 * sum K / sum N (1/2, 2/3 and 0/1 give 3/6, 50%).
C27_OverallIsSumOfCounts ==
  (Done /\ report.printed) =>
    /\ report.overall.documented = SumK
    /\ report.overall.total = SumN
    /\ SumN > 0 =>
         /\ "percent" \in DOMAIN report.overall
         /\ 2 * (100 * SumK - report.overall.percent * SumN) <= SumN
         /\ 2 * (report.overall.percent * SumN - 100 * SumK) <= SumN
    /\ (Len(report.classes) = 3 /\ LineFractions = {<<1, 2>>, <<2, 3>>, <<0, 1>>})
         => report.overall = [documented |-> 3, total |-> 6, percent |-> 50]
\* a report with the lines 1/2 (50%) and 2/3 (67%): overall 3/5 is 60%, the
\* mean of the two percentages is not
C27_Witness ==
  /\ Done /\ report.printed
  /\ Len(report.classes) = 2
  /\ LineFractions = {<<1, 2>>, <<2, 3>>}
  /\ report.overall = [documented |-> 3, total |-> 5, percent |-> 60]

\* the lines of the report and its overall line
ReportLines == {report.classes[i] : i \in DOMAIN report.classes} \cup {report.overall}
\* the class at position p has a marker on a method that is not visible
HiddenMarked(p) ==
  \E k \in DOMAIN ClassAt(p).methods :
    ClassAt(p).methods[k].marked /\ ~ClassAt(p).methods[k].visible
\* C28: every line of the coverage report, and the overall line, has
\* 0 <= K <= N and no percentage above 100, also for a class with a
\* [SpecCapability] marker on a method that is not externally visible.
C28_CountsBounded ==
  (Done /\ report.printed) =>
    \A e \in ReportLines :
      /\ 0 <= e.documented /\ e.documented <= e.total
      /\ "percent" \in DOMAIN e => (0 <= e.percent /\ e.percent <= 100)
\* a report with the line of a class whose markers outnumber its visible
\* methods: one public and one private method, both with a marker
C28_Witness ==
  /\ Done /\ report.printed
  /\ \E i \in DOMAIN report.classes : \E p \in ClassPositions :
       /\ LineGives(report.classes[i], p)
       /\ HiddenMarked(p)
       /\ Cardinality({k \in DOMAIN ClassAt(p).methods : ClassAt(p).methods[k].marked})
            > report.classes[i].total
       /\ report.classes[i].documented = 1 /\ report.classes[i].total = 1

Dangling(cf, of) ==
  \E c \in Entries(cf) :
    /\ HasParent(c)
    /\ ~\E o \in Entries(of) : o.rec.id = c.rec.parentOption.id
OptionsNewer ==
  \/ pc = "write_capabilities"
  \/ crashAt = "write_capabilities"
  \/ pc # "done" /\ Untouched /\ Dangling(before.capsFile, before.optionsFile)
====
